---- MODULE Spec2Model ----
(***************************************************************************)
(* Detection pipeline of the Pump.fun migration detector:                  *)
(*   rpc/client.ts        SolanaRpcClient (signature listing, pagination)  *)
(*   storage/history.ts   processed-signature history (bounded on disk)    *)
(*   storage/cursor.ts    cursor file                                      *)
(*   migration/parser.ts  transaction classifier                           *)
(*   migration/detector.ts MigrationDetector.detectMigrations              *)
(*                                                                         *)
(* A signature is modelled by its position in the ledger of the watched    *)
(* address: signature n is the n-th transaction ever recorded, so a larger *)
(* number is a newer signature.  Times are small integers (seconds).       *)
(***************************************************************************)
EXTENDS Integers, Sequences, FiniteSets, TLC

\* ------------------------------------------------------------------ bounds
\* Largest number of signatures the ledger holds.
MaxLedger == 3
\* Last instant of the wall clock.
MaxTime == 3
\* config.maxSignaturesPerFetch, the page size of a listing request.
PageSize == 2
\* config.concurrencyLimit, the size of a fetch group.
ConcurrencyLimit == 2
\* The number of signatures saveHistory keeps.  The source keeps 10000
\* (slice(-10000)); the model scales it down so that a history larger than
\* the cap is reachable.
HistoryCap == 2
\* Longest log of addToHistory arguments in the history-store specification.
MaxAdds == 5
\* windowSeconds a process may be started with (--window=...).
WindowChoices == {1, 3}

\* ------------------------------------------------------------- null values
\* null of CursorData.newestSignature (no signature has number 0).
NoSig == 0
\* null of a block time / of CursorData.newestBlockTime and lastRunAt.
NoTime == 0 - 1

Min(a, b) == IF a < b THEN a ELSE b
Max(a, b) == IF a > b THEN a ELSE b

\* JavaScript `a || b` on a number-or-null: null and 0 are falsy.
OrElse(a, b) == IF a = NoTime \/ a = 0 THEN b ELSE a

VARIABLES
    ledger,          \* block time (or NoTime) of each signature, oldest first
    now,             \* wall clock, Date.now() / 1000
    windowSeconds,   \* the running process's --window argument
    historyFile,     \* data/history.json: processedSignatures array
    cursorFile,      \* data/cursor.json
    history,         \* MigrationDetector.history.processedSignatures (a Set,
                     \* kept in insertion order)
    pc,              \* position of the running detectMigrations call
    cursor,          \* detectMigrations: const cursor = loadCursor()
    windowStartTime, \* detectMigrations: now - windowSeconds
    before,          \* getSignaturesInTimeWindow: let before
    allSignatures,   \* getSignaturesInTimeWindow: allSignatures
    newSignatures,   \* detectMigrations: newSignatures
    i,               \* detectMigrations: loop index of the group loop
    migrations,      \* detectMigrations: migrations
    outcomes,        \* what getTransaction did for newSignatures[1..i]
    ret,             \* value detectMigrations returned (or that it raised)
    classified,      \* SpecCounted: signatures some cycle has fetched and classified
    ledgerAtStart,   \* ledger length when the running cycle started
    atStart,         \* files and history set when the running cycle started
    quiet,           \* bookkeeping of back-to-back cycles without new activity
    addLog,          \* history-store specification: every addToHistory argument
    savedAt,         \* history-store specification: Len(addLog) at the last save
    requests,        \* pagination specification: `before` of each page request
    tx,              \* classifier specification: the transaction to classify
    verdict,         \* classifier specification: what the classifier returned
    toEnrich,        \* enrichMigrations: the migrations argument
    enrichResults,   \* enrichMigrations: results
    enrichLog,       \* enrichMigrations: per migration visited, what the
                     \* lookups returned and the price data tested
    options,         \* withRetry: the options argument
    attempt,         \* withRetry: loop variable
    lastError,       \* withRetry: lastError
    calls,           \* withRetry: what each invocation of fn did
    sleeps,          \* withRetry: the delay of each sleep
    retried,         \* withRetry: the value returned or the error raised
    continuous,      \* main: parseArgs().continuous
    published,       \* runDetection: the migrations handed to saveOutput
                     \* by the latest cycle
    lastOutcome,     \* how the latest finished cycle ended
    inProgress,      \* number of runDetection calls that have not completed
    response,        \* getPrice: what the price API answered
    quote,           \* getPrice: the PriceData returned, or that it raised
    ops,             \* group loop of detectMigrations: per new signature,
                     \* whether its fetch+classify operation has not started,
                     \* is in flight, or how it settled
    settledOrder,    \* group loop: the positions of the operations of the
                     \* latest group in the order in which they settled
    apiKey,          \* GeckoTerminalProvider: whether an API key is configured
    lastRequestTime, \* GeckoTerminalProvider.lastRequestTime
    priceCalls,      \* the getPrice calls on the provider: where each is,
                     \* when its sleep ends, when its first request went out
    lookedUp         \* enrichMigrations: priceData after the price lookup

vars == << ledger, now, windowSeconds, historyFile, cursorFile, history, pc,
           cursor, windowStartTime, before, allSignatures, newSignatures, i,
           migrations, outcomes, ret, classified, ledgerAtStart, atStart, quiet,
           addLog, savedAt, requests, tx, verdict, toEnrich, enrichResults,
           enrichLog, options, attempt, lastError, calls, sleeps, retried,
           continuous, published, lastOutcome, inProgress, response, quote,
           ops, settledOrder, apiKey, lastRequestTime, priceCalls,
           lookedUp >>

\* The variables of the specifications of single functions.
paginationVars == << requests >>
parserVars == << tx, verdict >>
enrichVars == << toEnrich, enrichResults, enrichLog >>
retryVars == << options, attempt, lastError, calls, sleeps, retried >>
runVars == << continuous, published, lastOutcome, inProgress >>
groupVars == << ops, settledOrder >>
priceVars == << response, quote >>
providerVars == << apiKey, lastRequestTime, priceCalls, lookedUp >>
unitVars == << paginationVars, parserVars, enrichVars, retryVars, runVars,
               groupVars, priceVars, providerVars >>

\* withRetry before a call: no options, no error, no outcome.
NoOptions == [maxRetries |-> 0 - 1, baseDelayMs |-> 0 - 1, maxDelayMs |-> 0 - 1]
NoError == [message |-> {}, invocation |-> 0]
NoOutcome == [kind |-> "none"]

\* No transaction, and no verdict of the classifier yet.
NoTx == [err |-> "null", logMessages |-> << >>, accountKeys |-> << >>,
         preTokenBalances |-> << >>, postTokenBalances |-> << >>]
NoVerdict == [called |-> FALSE]

\* Nothing handed to saveOutput yet.
NotPublished == [written |-> FALSE, migrations |-> << >>]

\* No answer of the price API, and no PriceData yet.
NoResponse == [kind |-> "none"]
NoQuote == [kind |-> "none"]

\* enrichMigrations before the price lookup (line 60).
NoPriceData == [kind |-> "none"]

\* A provider no getPrice call has been made on (lines 20-22).
ProviderIdle ==
    /\ apiKey = FALSE
    /\ lastRequestTime = 0
    /\ priceCalls = << >>
    /\ lookedUp = NoPriceData

\* getPrice before a call.
PriceIdle ==
    /\ response = NoResponse
    /\ quote = NoQuote
    /\ ProviderIdle

\* main and runDetection before the first cycle.
RunIdle ==
    /\ ops = << >>
    /\ settledOrder = << >>
    /\ continuous = TRUE
    /\ published = NotPublished
    /\ lastOutcome = "none"
    /\ inProgress = 0

\* Their values in the specifications that do not use them.
UnitInit ==
    /\ RunIdle
    /\ PriceIdle
    /\ requests = << >>
    /\ tx = NoTx
    /\ verdict = NoVerdict
    /\ toEnrich = << >>
    /\ enrichResults = << >>
    /\ enrichLog = << >>
    /\ options = NoOptions
    /\ attempt = 0
    /\ lastError = NoError
    /\ calls = << >>
    /\ sleeps = << >>
    /\ retried = NoOutcome

\* ------------------------------------------------- storage/history.ts
RECURSIVE Dedup(_)
\* new Set(array): the distinct elements, in order of first occurrence.
Dedup(s) ==
    IF s = << >> THEN << >>
    ELSE LET r == Dedup(SubSeq(s, 1, Len(s) - 1))
             x == s[Len(s)]
         IN  IF \E k \in 1..Len(r) : r[k] = x THEN r ELSE Append(r, x)

\* Array.prototype.slice(-n): the last n elements.
SliceLast(s, n) == SubSeq(s, Max(1, Len(s) - n + 1), Len(s))

\* The history file: missing ("missing"), not parseable as JSON ("text"),
\* the JSON value null ("null"), a JSON object without processedSignatures
\* ("object"), or the JSON object saveHistory wrote ("json").
NoHistoryFile == [kind |-> "missing", processedSignatures |-> << >>]

\* loadHistory, lines 45-66: the empty set when the file is missing (line
\* 48) and when JSON.parse or the read of data.processedSignatures raises
\* (text, null: caught at line 60); new Set(undefined) is empty too
\* (object); else new Set(data.processedSignatures).
loadHistory(file) ==
    CASE file.kind = "missing" -> << >>
      [] file.kind = "text"    -> << >>
      [] file.kind = "null"    -> << >>
      [] file.kind = "object"  -> Dedup(<< >>)
      [] OTHER                 -> Dedup(file.processedSignatures)

\* isProcessed: history.processedSignatures.has(signature)
isProcessed(h, signature) == \E k \in 1..Len(h) : h[k] = signature

\* A variant that replaces the set by the new signatures.
addToHistory_replace(h, signatures) == Dedup(signatures)

\* A variant that keeps the set within the cap of the file.
addToHistory_capped(h, signatures) ==
    SliceLast(Dedup(h \o signatures), HistoryCap)

RECURSIVE addToHistory(_, _)
\* addToHistory: Set.add of each signature in turn; adding a member again
\* leaves the set and its order as they are.
addToHistory(h, signatures) ==
    IF signatures = << >> THEN h
    ELSE addToHistory(IF isProcessed(h, Head(signatures)) THEN h
                      ELSE Append(h, Head(signatures)),
                      Tail(signatures))

\* A variant that keeps the first signatures instead of the last.
saveHistory_oldest(h) ==
    [kind |-> "json",
     processedSignatures |-> SubSeq(h, 1, Min(Len(h), HistoryCap))]

\* saveHistory: the object written to the history file.
saveHistory(h) ==
    [kind |-> "json", processedSignatures |-> SliceLast(h, HistoryCap)]

\* -------------------------------------------------- storage/cursor.ts
\* The cursor loadCursor returns when the file is missing.
NullCursor == [newestSignature |-> NoSig, newestBlockTime |-> NoTime,
               lastRunAt |-> NoTime]

\* The cursor file, with the kinds of the history file.
NoCursorFile == [kind |-> "missing", data |-> NullCursor]

\* What JSON.parse returns for the text `null`.
JsonNull == [null |-> TRUE]

\* loadCursor, lines 19-41: the all-null cursor when the file is missing
\* (line 22) or JSON.parse raises (line 33); else whatever JSON.parse
\* returned (line 32), null included.  An object without the fields reads
\* as undefined in each of them, which every use (`||`) treats as null.
loadCursor(file) ==
    CASE file.kind = "missing" -> NullCursor
      [] file.kind = "text"    -> NullCursor
      [] file.kind = "null"    -> JsonNull
      [] file.kind = "object"  -> NullCursor
      [] OTHER                 -> file.data

\* saveCursor: the object written to the cursor file.
saveCursor(c) == [kind |-> "json", data |-> c]

\* ------------------------------------------------------ config.ts
PUMPFUN_PROGRAM == "PUMPFUN_PROGRAM"
DEX_PROGRAMS == [RAYDIUM_AMM |-> "RAYDIUM_AMM", RAYDIUM_CLMM |-> "RAYDIUM_CLMM",
                 PUMPSWAP |-> "PUMPSWAP", PUMPSWAP_AMM |-> "PUMPSWAP_AMM"]
\* config.ignoreMints
IgnoreMints == {"WSOL"}

\* ------------------------------------------------ migration/parser.ts
\* A transaction: err ("null" or an error), logMessages (each line is the
\* set of marker texts it contains), accountKeys, pre/postTokenBalances
\* (mint, uiAmount).
Includes(seq, x) == \E k \in 1..Len(seq) : seq[k] = x
SomeLog(logs, marker) == \E k \in 1..Len(logs) : marker \in logs[k]

getAccountKeys(t) == t.accountKeys

\* A variant without the test of meta.err.
isMigrationTransaction_anyErr(t) ==
    IF ~SomeLog(t.logMessages, "Instruction: Migrate") THEN FALSE
    ELSE IF SomeLog(t.logMessages, "Bonding curve already migrated") THEN FALSE
    ELSE Includes(getAccountKeys(t), PUMPFUN_PROGRAM)

\* A variant without the exclusion of already-migrated curves.
isMigrationTransaction_noExclusion(t) ==
    IF t.err # "null" THEN FALSE
    ELSE IF ~SomeLog(t.logMessages, "Instruction: Migrate") THEN FALSE
    ELSE Includes(getAccountKeys(t), PUMPFUN_PROGRAM)

\* A variant that also asks for a log line of a pool creation (the
\* hasDexInteraction of lines 36-41, which the source computes and does
\* not use).
isMigrationTransaction_needsDex(t) ==
    IF t.err # "null" THEN FALSE
    ELSE IF ~SomeLog(t.logMessages, "Instruction: Migrate") THEN FALSE
    ELSE IF SomeLog(t.logMessages, "Bonding curve already migrated") THEN FALSE
    ELSE IF ~SomeLog(t.logMessages, "Create") THEN FALSE
    ELSE Includes(getAccountKeys(t), PUMPFUN_PROGRAM)

isMigrationTransaction(t) ==
    IF t.err # "null" THEN FALSE
    ELSE IF ~SomeLog(t.logMessages, "Instruction: Migrate") THEN FALSE
    ELSE IF SomeLog(t.logMessages, "Bonding curve already migrated") THEN FALSE
    ELSE Includes(getAccountKeys(t), PUMPFUN_PROGRAM)

RECURSIVE SumUi(_, _)
\* getTotal: sum of uiAmount over the balance entries of the mint.
SumUi(balances, mint) ==
    IF balances = << >> THEN 0
    ELSE (IF Head(balances).mint = mint THEN Head(balances).uiAmount ELSE 0)
         + SumUi(Tail(balances), mint)

Abs(x) == IF x < 0 THEN 0 - x ELSE x

calculateBalanceChange(mint, preBalances, postBalances) ==
    Abs(SumUi(postBalances, mint) - SumUi(preBalances, mint))

RECURSIVE BestMint(_, _, _, _, _)
\* The loop of extractMint over candidateMints: a strictly larger change
\* replaces the incumbent.
BestMint(candidates, pre, post, bestMint, maxChange) ==
    IF candidates = << >> THEN bestMint
    ELSE LET change == calculateBalanceChange(Head(candidates), pre, post)
         IN  IF change > maxChange
             THEN BestMint(Tail(candidates), pre, post, Head(candidates), change)
             ELSE BestMint(Tail(candidates), pre, post, bestMint, maxChange)

\* extractMint: "null" when no mint is selected.
extractMint(t, ignoreMints) ==
    LET both == t.preTokenBalances \o t.postTokenBalances
        kept == SelectSeq(both, LAMBDA b : b.mint \notin ignoreMints)
        candidateMints == Dedup([k \in 1..Len(kept) |-> kept[k].mint])
    IN  IF Len(candidateMints) = 0 THEN "null"
        ELSE IF Len(candidateMints) = 1 THEN candidateMints[1]
        ELSE BestMint(candidateMints, t.preTokenBalances,
                      t.postTokenBalances, "null", 0)

\* A variant that tests the Raydium programs first.
detectDestination_raydiumFirst(t) ==
    LET accountKeys == getAccountKeys(t)
    IN  IF Includes(accountKeys, DEX_PROGRAMS.RAYDIUM_AMM)
           \/ Includes(accountKeys, DEX_PROGRAMS.RAYDIUM_CLMM) THEN "raydium"
        ELSE IF Includes(accountKeys, DEX_PROGRAMS.PUMPSWAP)
                \/ Includes(accountKeys, DEX_PROGRAMS.PUMPSWAP_AMM) THEN "pumpswap"
        ELSE "null"

detectDestination(t) ==
    LET accountKeys == getAccountKeys(t)
    IN  IF Includes(accountKeys, DEX_PROGRAMS.PUMPSWAP)
           \/ Includes(accountKeys, DEX_PROGRAMS.PUMPSWAP_AMM) THEN "pumpswap"
        ELSE IF Includes(accountKeys, DEX_PROGRAMS.RAYDIUM_AMM)
                \/ Includes(accountKeys, DEX_PROGRAMS.RAYDIUM_CLMM) THEN "raydium"
        ELSE "null"

\* parseMigrationTransaction: << >> for null, else the one ParsedMigration.
parseMigrationTransaction(signature, blockTime, t) ==
    IF ~isMigrationTransaction(t) THEN << >>
    ELSE LET mint == extractMint(t, IgnoreMints)
         IN  IF mint = "null" THEN << >>
             ELSE << [signature |-> signature, blockTime |-> blockTime,
                      mint |-> mint, destination |-> detectDestination(t)] >>

\* ------------------------------------- transactions the node can return
\* A genuine migration of mint M1 (balance change 300).
GenuineTx ==
    [err |-> "null",
     logMessages |-> << {"Instruction: Migrate"}, {"Create"} >>,
     accountKeys |-> << PUMPFUN_PROGRAM, DEX_PROGRAMS.PUMPSWAP >>,
     preTokenBalances |-> << [mint |-> "M1", uiAmount |-> 300] >>,
     postTokenBalances |-> << [mint |-> "M1", uiAmount |-> 0],
                              [mint |-> "WSOL", uiAmount |-> 7] >>]
\* The same pattern hitting a curve that has already migrated.
DuplicateTx ==
    [GenuineTx EXCEPT !.logMessages =
        << {"Instruction: Migrate"}, {"Bonding curve already migrated"} >>]

\* What getTransaction does for one signature: raises after its retries,
\* returns null (not found), or returns a transaction.
Outcomes == {"throw", "null", "genuine", "duplicate"}
TxOf(o) == IF o = "genuine" THEN GenuineTx ELSE DuplicateTx

\* ------------------------------------------------------ rpc/client.ts
\* connection.getSignaturesForAddress: the signatures strictly older than
\* `before` (from the newest when absent) and strictly newer than `until`,
\* newest first, at most `limit` of them.
RpcSignatures(before_, until, limit) ==
    LET hi == IF before_ = NoSig THEN Len(ledger) ELSE before_ - 1
        lo == Max(until + 1, hi - limit + 1)
    IN  [k \in 1..Max(0, hi - lo + 1) |->
            [signature |-> hi - k + 1, blockTime |-> ledger[hi - k + 1]]]

\* SolanaRpcClient.getSignaturesForAddress: entries without a block time
\* are filtered out of the page.
getSignaturesForAddress(before_, until, limit) ==
    SelectSeq(RpcSignatures(before_, until, limit),
              LAMBDA sig : sig.blockTime # NoTime)

RECURSIVE TakeInWindow(_, _)
\* The for-loop of getSignaturesInTimeWindow over one page: push until the
\* first signature older than the window.
TakeInWindow(signatures, windowStart) ==
    IF signatures = << >> \/ Head(signatures).blockTime < windowStart
    THEN << >>
    ELSE << Head(signatures) >> \o TakeInWindow(Tail(signatures), windowStart)

\* One iteration of the while-loop of getSignaturesInTimeWindow.
Page == getSignaturesForAddress(before, cursor.newestSignature, PageSize)
Taken == TakeInWindow(Page, windowStartTime)

\* A variant without the test of the block time against the window.
LoopEnds_noWindowStop == \/ Len(Page) = 0
                         \/ Len(Page) < PageSize

\* The loop ends: empty page, signature before the window, or short page.
LoopEnds == \/ Len(Page) = 0
            \/ Len(Taken) < Len(Page)
            \/ Len(Page) < PageSize
Listed == allSignatures \o Taken

\* A variant that pages from the first signature of the page.
NextBefore_first(signatures) == signatures[1].signature

\* A variant that asks for the same page again.
NextBefore_same(signatures) == before

\* Line 82: before = signatures[signatures.length - 1].signature
NextBefore(signatures) == signatures[Len(signatures)].signature

\* -------------------------------------------- migration/detector.ts
\* signatures.filter(sig => !isProcessed(this.history, sig.signature))
FilterNew(h, signatures) ==
    SelectSeq(signatures, LAMBDA sig : ~isProcessed(h, sig.signature))

SignaturesOf(sigs) == [k \in 1..Len(sigs) |-> sigs[k].signature]

\* A variant that leaves out the signatures whose fetch raised.
ProcessedSignatures_fetched(newSigs, outs) ==
    SignaturesOf(SelectSeq(newSigs, LAMBDA sig :
        \E k \in 1..Len(newSigs) : newSigs[k] = sig /\ outs[k] # "throw"))

\* Line 85: newSignatures.map(s => s.signature), whatever each fetch did.
ProcessedSignatures(newSigs, outs) == SignaturesOf(newSigs)

\* A variant that takes the last new signature instead of the first.
NewCursor_oldest(newSigs, cur, t) ==
    [newestSignature |-> OrElse(newSigs[Len(newSigs)].signature,
                                cur.newestSignature),
     newestBlockTime |-> OrElse(newSigs[Len(newSigs)].blockTime,
                                cur.newestBlockTime),
     lastRunAt       |-> t]

\* The cursor written at the end of a cycle with new signatures.
NewCursor(newSigs, cur, t) ==
    [newestSignature |-> OrElse(newSigs[1].signature, cur.newestSignature),
     newestBlockTime |-> OrElse(newSigs[1].blockTime, cur.newestBlockTime),
     lastRunAt       |-> t]

\* One element of batch.map: fetch, then classify; a raised error and a
\* null transaction both give null.
FetchAndParse(sig, o) ==
    IF o \in {"throw", "null"} THEN << >>
    ELSE parseMigrationTransaction(sig.signature, sig.blockTime, TxOf(o))

\* A variant with the try/catch around the whole group: one failure
\* loses the group's results.
GroupResults_allOrNothing(batch, outs) ==
    [k \in 1..Len(batch) |->
        IF \E j \in 1..Len(batch) : outs[j] = "throw" THEN << >>
        ELSE FetchAndParse(batch[k], outs[k])]

\* A variant that collects the results of a group in the order in which
\* its operations settled.
GroupResults_completionOrder(batch, outs) ==
    [k \in 1..Len(batch) |->
        LET position == settledOrder[k]
        IN  FetchAndParse(newSignatures[position], ops[position])]

\* await Promise.all(batch.map(...)): the results in the order of the batch.
GroupResults(batch, outs) ==
    [k \in 1..Len(batch) |-> FetchAndParse(batch[k], outs[k])]

RECURSIVE Flatten(_)
\* for (const result of results) if (result) migrations.push(result)
Flatten(results) ==
    IF results = << >> THEN << >> ELSE Head(results) \o Flatten(Tail(results))

NoRet == [migrations |-> << >>, cursor |-> NullCursor]
NoStart == [historyFile |-> NoHistoryFile, cursorFile |-> NoCursorFile,
            history |-> << >>]

\* The locals of detectMigrations when no call is running.
LocalsCleared ==
    /\ cursor' = NullCursor
    /\ windowStartTime' = 0
    /\ before' = NoSig
    /\ allSignatures' = << >>
    /\ newSignatures' = << >>
    /\ i' = 0
    /\ migrations' = << >>
    /\ outcomes' = << >>
    /\ ret' = NoRet
    /\ ledgerAtStart' = 0
    /\ atStart' = NoStart

Init ==
    /\ ledger = << >>
    /\ now = 1
    /\ windowSeconds \in WindowChoices
    /\ historyFile = NoHistoryFile
    /\ cursorFile = NoCursorFile
    /\ history = loadHistory(historyFile)
    /\ pc = "idle"
    /\ cursor = NullCursor
    /\ windowStartTime = 0
    /\ before = NoSig
    /\ allSignatures = << >>
    /\ newSignatures = << >>
    /\ i = 0
    /\ migrations = << >>
    /\ outcomes = << >>
    /\ ret = NoRet
    /\ classified = {}
    /\ ledgerAtStart = 0
    /\ atStart = NoStart
    /\ quiet = "no"
    /\ addLog = << >>
    /\ savedAt = 0
    /\ UnitInit

\* detectMigrations, lines 26-37: load the cursor, fix the window, read
\* cursor.newestSignature for the listing (a TypeError when the cursor is
\* null: the call raises).
StartCycle ==
    /\ pc = "idle"
    /\ pc' = IF loadCursor(cursorFile) = JsonNull THEN "raised" ELSE "listing"
    /\ cursor' = loadCursor(cursorFile)
    /\ windowStartTime' = now - windowSeconds
    /\ before' = NoSig
    /\ allSignatures' = << >>
    /\ ledgerAtStart' = Len(ledger)
    /\ atStart' = [historyFile |-> historyFile, cursorFile |-> cursorFile,
                   history |-> history]
    /\ quiet' = IF loadCursor(cursorFile) = JsonNull THEN "no"
                ELSE IF quiet = "ran" THEN "second" ELSE "first"
    /\ UNCHANGED << ledger, now, windowSeconds, historyFile, cursorFile,
                    history, newSignatures, i, migrations, outcomes, ret,
                    classified, addLog, savedAt >>
    /\ UNCHANGED unitVars

\* A variant that records the failed run in the cursor file.
ListPageFails_touch ==
    /\ pc = "listing"
    /\ pc' = "raised"
    /\ quiet' = "no"
    /\ cursorFile' = saveCursor([cursor EXCEPT !.lastRunAt = now])
    /\ UNCHANGED << ledger, now, windowSeconds, historyFile,
                    history, cursor, windowStartTime, before, allSignatures,
                    newSignatures, i, migrations, outcomes, ret, classified,
                    ledgerAtStart, atStart, addLog, savedAt >>
    /\ UNCHANGED unitVars

\* A page request fails after its retries: getSignaturesInTimeWindow and
\* then detectMigrations raise.
ListPageFails ==
    /\ pc = "listing"
    /\ pc' = "raised"
    /\ quiet' = "no"
    /\ UNCHANGED << ledger, now, windowSeconds, historyFile, cursorFile,
                    history, cursor, windowStartTime, before, allSignatures,
                    newSignatures, i, migrations, outcomes, ret, classified,
                    ledgerAtStart, atStart, addLog, savedAt >>
    /\ UNCHANGED unitVars

\* A full page inside the window: the loop goes on to the next page.
ListNextPage ==
    /\ pc = "listing"
    /\ ~LoopEnds
    /\ allSignatures' = Listed
    /\ before' = NextBefore(Page)
    /\ UNCHANGED << ledger, now, windowSeconds, historyFile, cursorFile,
                    history, pc, cursor, windowStartTime, newSignatures, i,
                    migrations, outcomes, ret, classified, ledgerAtStart, atStart,
                    quiet, addLog, savedAt >>
    /\ UNCHANGED unitVars

\* A variant that records the empty run in the cursor file.
ListingEndsEmpty_touch ==
    /\ pc = "listing"
    /\ LoopEnds
    /\ FilterNew(history, Listed) = << >>
    /\ allSignatures' = Listed
    /\ pc' = "returned"
    /\ cursorFile' = saveCursor([cursor EXCEPT !.lastRunAt = now])
    /\ ret' = [migrations |-> << >>, cursor |-> [cursor EXCEPT !.lastRunAt = now]]
    /\ UNCHANGED << ledger, now, windowSeconds, historyFile,
                    history, cursor, windowStartTime, before, newSignatures,
                    i, migrations, outcomes, classified, ledgerAtStart, atStart, quiet,
                    addLog, savedAt >>
    /\ UNCHANGED unitVars

\* The listing ends and nothing in it is unprocessed: lines 46-48.
ListingEndsEmpty ==
    /\ pc = "listing"
    /\ LoopEnds
    /\ FilterNew(history, Listed) = << >>
    /\ allSignatures' = Listed
    /\ pc' = "returned"
    /\ ret' = [migrations |-> << >>, cursor |-> cursor]
    /\ UNCHANGED << ledger, now, windowSeconds, historyFile, cursorFile,
                    history, cursor, windowStartTime, before, newSignatures,
                    i, migrations, outcomes, classified, ledgerAtStart, atStart, quiet,
                    addLog, savedAt >>
    /\ UNCHANGED unitVars

\* The listing ends with unprocessed signatures: the group loop starts.
ListingEndsNew ==
    /\ pc = "listing"
    /\ LoopEnds
    /\ FilterNew(history, Listed) # << >>
    /\ allSignatures' = Listed
    /\ newSignatures' = FilterNew(history, Listed)
    /\ i' = 0
    /\ migrations' = << >>
    /\ outcomes' = << >>
    /\ pc' = "batch"
    /\ UNCHANGED << ledger, now, windowSeconds, historyFile, cursorFile,
                    history, cursor, windowStartTime, before, ret, classified,
                    ledgerAtStart, atStart, quiet, addLog, savedAt >>
    /\ UNCHANGED unitVars

\* One group of the loop at lines 54-82; after the last group the history
\* is updated and saved (lines 85-86).  With `counted` the signatures whose
\* transaction is classified are recorded in `classified`.
ProcessGroupStep(counted) ==
    /\ pc = "batch"
    /\ LET batch == SubSeq(newSignatures, i + 1,
                           Min(i + ConcurrencyLimit, Len(newSignatures)))
       IN  \E outs \in [1..Len(batch) -> Outcomes] :
              LET results == GroupResults(batch, outs)
              IN  /\ migrations' = migrations \o Flatten(results)
                  /\ outcomes' = outcomes \o outs
                  /\ classified' =
                        IF counted
                        THEN classified \cup
                             {batch[k].signature : k \in
                                 {j \in 1..Len(batch) :
                                     outs[j] \notin {"throw", "null"}}}
                        ELSE classified
    /\ i' = i + ConcurrencyLimit
    /\ IF i + ConcurrencyLimit >= Len(newSignatures)
       THEN /\ history' = addToHistory(history,
                            ProcessedSignatures(newSignatures, outcomes'))
            /\ historyFile' = saveHistory(history')
            /\ pc' = "saveCursor"
       ELSE UNCHANGED << history, historyFile, pc >>
    /\ UNCHANGED << ledger, now, windowSeconds, cursorFile, cursor,
                    windowStartTime, before, allSignatures, newSignatures,
                    ret, ledgerAtStart, atStart, quiet, addLog, savedAt >>
    /\ UNCHANGED unitVars

ProcessGroup == ProcessGroupStep(FALSE)
ProcessGroupCounted == ProcessGroupStep(TRUE)

\* Lines 89-99: write the cursor and return.
SaveCursor ==
    /\ pc = "saveCursor"
    /\ LET newCursor == NewCursor(newSignatures, cursor, now)
       IN  /\ cursorFile' = saveCursor(newCursor)
           /\ ret' = [migrations |-> migrations, cursor |-> newCursor]
    /\ pc' = "returned"
    /\ UNCHANGED << ledger, now, windowSeconds, historyFile, history, cursor,
                    windowStartTime, before, allSignatures, newSignatures, i,
                    migrations, outcomes, classified, ledgerAtStart, atStart, quiet,
                    addLog, savedAt >>
    /\ UNCHANGED unitVars

\* runDetection after detectMigrations returned or raised: the call is
\* over and main sleeps until the next cycle.
Finish ==
    /\ pc \in {"returned", "raised"}
    /\ pc' = "idle"
    /\ quiet' = IF pc = "returned" /\ quiet \in {"first", "second"}
                THEN "ran" ELSE "no"
    /\ LocalsCleared
    /\ UNCHANGED << ledger, now, windowSeconds, historyFile, cursorFile,
                    history, classified, addLog, savedAt >>
    /\ UNCHANGED unitVars

\* The process stops (between cycles, or between the two file writes) and
\* a new process starts: main builds a new MigrationDetector.
Restart ==
    /\ pc \in {"idle", "saveCursor"}
    /\ pc' = "idle"
    /\ windowSeconds' \in WindowChoices
    /\ history' = loadHistory(historyFile)
    /\ quiet' = "no"
    /\ LocalsCleared
    /\ UNCHANGED << ledger, now, historyFile, cursorFile, classified, addLog, savedAt >>
    /\ UNCHANGED unitVars

\* The chain records a new transaction of the watched address, with the
\* current time as its block time or without a block time.
NewSignature ==
    /\ Len(ledger) < MaxLedger
    /\ \E timed \in BOOLEAN :
          ledger' = Append(ledger, IF timed THEN now ELSE NoTime)
    /\ quiet' = "no"
    /\ UNCHANGED << now, windowSeconds, historyFile, cursorFile, history, pc,
                    cursor, windowStartTime, before, allSignatures,
                    newSignatures, i, migrations, outcomes, ret, classified,
                    ledgerAtStart, atStart, addLog, savedAt >>
    /\ UNCHANGED unitVars

\* Time passes between cycles.  Within a cycle the clock is read at its
\* start (the window) and for the lastRunAt stamp only, and the model lets a
\* cycle run within one instant of the clock.
Tick ==
    /\ pc = "idle"
    /\ now < MaxTime
    /\ now' = now + 1
    /\ UNCHANGED << ledger, windowSeconds, historyFile, cursorFile, history,
                    pc, cursor, windowStartTime, before, allSignatures,
                    newSignatures, i, migrations, outcomes, ret, classified,
                    ledgerAtStart, atStart, quiet, addLog, savedAt >>
    /\ UNCHANGED unitVars

Next ==
    \/ StartCycle
    \/ ListPageFails
    \/ ListNextPage
    \/ ListingEndsEmpty
    \/ ListingEndsNew
    \/ ProcessGroup
    \/ SaveCursor
    \/ Finish
    \/ Restart
    \/ NewSignature
    \/ Tick

Spec == Init /\ [][Next]_vars

\* ------------------------------------------ corrupt persisted state
\* The same system started on a data directory whose two files are
\* missing or were damaged: not JSON, JSON null, or a JSON object without
\* the expected fields.
DamagedKinds == {"missing", "text", "null", "object"}

InitDamaged ==
    /\ ledger = << >>
    /\ now = 1
    /\ windowSeconds \in WindowChoices
    /\ \E kind \in DamagedKinds :
          historyFile = [kind |-> kind, processedSignatures |-> << >>]
    /\ \E kind \in DamagedKinds :
          cursorFile = [kind |-> kind, data |-> NullCursor]
    /\ history = loadHistory(historyFile)
    /\ pc = "idle"
    /\ cursor = NullCursor
    /\ windowStartTime = 0
    /\ before = NoSig
    /\ allSignatures = << >>
    /\ newSignatures = << >>
    /\ i = 0
    /\ migrations = << >>
    /\ outcomes = << >>
    /\ ret = NoRet
    /\ classified = {}
    /\ ledgerAtStart = 0
    /\ atStart = NoStart
    /\ quiet = "no"
    /\ addLog = << >>
    /\ savedAt = 0
    /\ UnitInit

\* One instant of the clock is enough here: the clock plays no part in
\* the loading of the files.
NextDamaged ==
    \/ StartCycle
    \/ ListPageFails
    \/ ListNextPage
    \/ ListingEndsEmpty
    \/ ListingEndsNew
    \/ ProcessGroup
    \/ SaveCursor
    \/ Finish
    \/ Restart
    \/ NewSignature

SpecDamaged == InitDamaged /\ [][NextDamaged]_vars

\* ------------------------- the group loop, one operation at a time
\* Most new signatures a cycle works through here: two full groups and
\* one more.
GroupsLedger == 2 * ConcurrencyLimit + 1

\* Line 55: newSignatures.slice(i, i + batchSize), as positions.
BatchPositions(idx) ==
    (idx + 1)..Min(idx + ConcurrencyLimit, Len(newSignatures))

InFlight == {k \in 1..Len(ops) : ops[k] = "in flight"}
Started == {k \in 1..Len(ops) : ops[k] # "not started"}
Settled == {k \in 1..Len(ops) : ops[k] \in Outcomes}

\* A variant that goes on as soon as one operation of the group settled
\* (Promise.race).
GroupAwaited_race == \E k \in BatchPositions(i) : k \in Settled

\* Line 57: await Promise.all(...) resumes when every operation of the
\* group has settled; none rejects, each catches its own error (line 70).
GroupAwaited == \A k \in BatchPositions(i) : k \in Settled

\* detectMigrations has listed new signatures and reaches the loop of line
\* 54.
InitGroups ==
    /\ \E n \in 1..GroupsLedger :
          /\ ledger = [k \in 1..n |-> 1]
          /\ newSignatures =
                [k \in 1..n |-> [signature |-> n - k + 1, blockTime |-> 1]]
          /\ ops = [k \in 1..n |-> "not started"]
    /\ settledOrder = << >>
    /\ allSignatures = newSignatures
    /\ pc = "batch"
    /\ i = 0
    /\ migrations = << >>
    /\ outcomes = << >>
    /\ now = 1
    /\ windowSeconds = 1
    /\ historyFile = NoHistoryFile
    /\ cursorFile = NoCursorFile
    /\ history = << >>
    /\ cursor = NullCursor
    /\ windowStartTime = 0
    /\ before = NoSig
    /\ ret = NoRet
    /\ classified = {}
    /\ ledgerAtStart = Len(ledger)
    /\ atStart = NoStart
    /\ quiet = "no"
    /\ addLog = << >>
    /\ savedAt = 0
    /\ continuous = TRUE
    /\ published = NotPublished
    /\ lastOutcome = "none"
    /\ inProgress = 0
    /\ PriceIdle
    /\ requests = << >>
    /\ tx = NoTx
    /\ verdict = NoVerdict
    /\ toEnrich = << >>
    /\ enrichResults = << >>
    /\ enrichLog = << >>
    /\ options = NoOptions
    /\ attempt = 0
    /\ lastError = NoError
    /\ calls = << >>
    /\ sleeps = << >>
    /\ retried = NoOutcome

GroupsFrame ==
    /\ UNCHANGED << ledger, now, windowSeconds, historyFile, cursorFile,
                    history, cursor, windowStartTime, before, allSignatures,
                    newSignatures, ret, classified, ledgerAtStart, atStart,
                    quiet, addLog, savedAt >>
    /\ UNCHANGED << paginationVars, parserVars, enrichVars, retryVars,
                    runVars, priceVars, providerVars >>

\* Lines 55-58: batch.map calls the async function for each signature of
\* the group, each call running up to its await of getTransaction.
StartGroup ==
    /\ pc = "batch"
    /\ i < Len(newSignatures)
    /\ ops' = [k \in 1..Len(ops) |->
                 IF k \in BatchPositions(i) THEN "in flight" ELSE ops[k]]
    /\ settledOrder' = << >>
    /\ pc' = "awaiting"
    /\ UNCHANGED << i, migrations, outcomes >>
    /\ GroupsFrame

\* Lines 59-73: one operation in flight settles: its fetch raised (caught
\* at line 70), returned null, or returned a transaction that was
\* classified.
OperationSettles ==
    /\ pc = "awaiting"
    /\ \E k \in InFlight, o \in Outcomes :
          /\ ops' = [ops EXCEPT ![k] = o]
          /\ settledOrder' = Append(settledOrder, k)
    /\ UNCHANGED << pc, i, migrations, outcomes >>
    /\ GroupsFrame

\* Lines 57 and 77-82: Promise.all resumes the loop, the results of the
\* group are pushed, and the loop index advances (line 54).
GroupEnds ==
    /\ pc = "awaiting"
    /\ GroupAwaited
    /\ LET batch == [k \in 1..Cardinality(BatchPositions(i)) |->
                        newSignatures[i + k]]
           outs == [k \in 1..Len(batch) |-> ops[i + k]]
       IN  /\ migrations' = migrations \o Flatten(GroupResults(batch, outs))
           /\ outcomes' = outcomes \o outs
    /\ i' = i + ConcurrencyLimit
    /\ pc' = IF i + ConcurrencyLimit >= Len(newSignatures)
             THEN "grouped" ELSE "batch"
    /\ UNCHANGED << ops, settledOrder >>
    /\ GroupsFrame

NextGroups == StartGroup \/ OperationSettles \/ GroupEnds

SpecGroups == InitGroups /\ [][NextGroups]_vars

\* The same system, keeping the record of the signatures classified so far.
NextCounted ==
    \/ StartCycle
    \/ ListPageFails
    \/ ListNextPage
    \/ ListingEndsEmpty
    \/ ListingEndsNew
    \/ ProcessGroupCounted
    \/ SaveCursor
    \/ Finish
    \/ Restart
    \/ NewSignature
    \/ Tick

SpecCounted == Init /\ [][NextCounted]_vars

\* ------------------------------------ the history store taken by itself
\* Callers may pass addToHistory any signatures, also ones already present.
SignatureLists ==
    {<< a >> : a \in 1..MaxLedger} \cup
    {<< a, b >> : a \in 1..MaxLedger, b \in 1..MaxLedger}

\* The store of a process that has just loaded its history.
InitHistory == Init

\* addToHistory(history, signatures)
CallAddToHistory ==
    /\ \E signatures \in SignatureLists :
          /\ Len(addLog) + Len(signatures) <= MaxAdds
          /\ history' = addToHistory(history, signatures)
          /\ addLog' = addLog \o signatures
    /\ UNCHANGED << savedAt, ledger, now, windowSeconds, historyFile, cursorFile, pc,
                    cursor, windowStartTime, before, allSignatures,
                    newSignatures, i, migrations, outcomes, ret, classified,
                    ledgerAtStart, atStart, quiet >>
    /\ UNCHANGED unitVars

\* saveHistory(history)
CallSaveHistory ==
    /\ historyFile' = saveHistory(history)
    /\ savedAt' = Len(addLog)
    /\ UNCHANGED << ledger, now, windowSeconds, cursorFile, history, pc,
                    cursor, windowStartTime, before, allSignatures,
                    newSignatures, i, migrations, outcomes, ret, classified,
                    ledgerAtStart, atStart, quiet, addLog >>
    /\ UNCHANGED unitVars

NextHistory == CallAddToHistory \/ CallSaveHistory

SpecHistory == InitHistory /\ [][NextHistory]_vars

\* ------------------------- getSignaturesInTimeWindow taken by itself
\* Longest ledger: three full pages and one entry beyond them.
PaginationLedger == 3 * PageSize + 1
\* Most entries without a block time on such a ledger.
MaxNoTime == 2
\* The function compares block times with windowStartTime only: two block
\* times and three window starts give every outcome of the comparison.
WindowStarts == {1, 2, 3}

\* Block times of the entries of a ledger.
BlockTimes == {1, 2}

\* Before any call: an empty ledger, and the window start of the call.
InitPagination ==
    /\ ledger = << >>
    /\ windowStartTime \in WindowStarts
    /\ pc = "idle"
    /\ cursor = NullCursor
    /\ before = NoSig
    /\ allSignatures = << >>
    /\ requests = << >>
    /\ now = 1
    /\ windowSeconds = 1
    /\ historyFile = NoHistoryFile
    /\ cursorFile = NoCursorFile
    /\ history = << >>
    /\ newSignatures = << >>
    /\ i = 0
    /\ migrations = << >>
    /\ outcomes = << >>
    /\ ret = NoRet
    /\ classified = {}
    /\ ledgerAtStart = 0
    /\ atStart = NoStart
    /\ quiet = "no"
    /\ addLog = << >>
    /\ savedAt = 0
    /\ tx = NoTx
    /\ verdict = NoVerdict
    /\ toEnrich = << >>
    /\ enrichResults = << >>
    /\ enrichLog = << >>
    /\ options = NoOptions
    /\ attempt = 0
    /\ lastError = NoError
    /\ calls = << >>
    /\ sleeps = << >>
    /\ retried = NoOutcome
    /\ RunIdle
    /\ PriceIdle

\* The chain records a transaction of the address: with a block time not
\* before the block times recorded so far, or without a block time.
RecordEntry ==
    /\ pc = "idle"
    /\ Len(ledger) < PaginationLedger
    /\ \E t \in BlockTimes \cup {NoTime} :
          /\ t = NoTime =>
                Cardinality({k \in 1..Len(ledger) : ledger[k] = NoTime})
                    < MaxNoTime
          /\ t # NoTime =>
                \A k \in 1..Len(ledger) : ledger[k] <= t
          /\ ledger' = Append(ledger, t)
    /\ UNCHANGED << now, windowSeconds, historyFile, cursorFile, history, pc,
                    cursor, windowStartTime, before, allSignatures,
                    newSignatures, i, migrations, outcomes, ret, classified,
                    ledgerAtStart, atStart, quiet, addLog, savedAt >>
    /\ UNCHANGED << paginationVars, parserVars, enrichVars, retryVars, runVars, groupVars,
                    priceVars, providerVars >>

\* getSignaturesInTimeWindow(address, windowStartTime, until) is called,
\* `until` absent or a signature of the ledger (lines 57-59).
CallGetSignaturesInTimeWindow ==
    /\ pc = "idle"
    /\ \E until \in 0..Len(ledger) :
          cursor' = [NullCursor EXCEPT !.newestSignature = until]
    /\ pc' = "listing"
    /\ before' = NoSig
    /\ allSignatures' = << >>
    /\ requests' = << >>
    /\ UNCHANGED << ledger, now, windowSeconds, historyFile, cursorFile,
                    history, windowStartTime, newSignatures, i, migrations,
                    outcomes, ret, classified, ledgerAtStart, atStart, quiet,
                    addLog, savedAt >>
    /\ UNCHANGED << parserVars, enrichVars, retryVars, runVars, groupVars,
                    priceVars, providerVars >>

\* A page request that does not end the loop (lines 62-87).
RequestPage ==
    /\ pc = "listing"
    /\ ~LoopEnds
    /\ requests' = Append(requests, before)
    /\ allSignatures' = Listed
    /\ before' = NextBefore(Page)
    /\ UNCHANGED << ledger, now, windowSeconds, historyFile, cursorFile,
                    history, pc, cursor, windowStartTime, newSignatures, i,
                    migrations, outcomes, ret, classified, ledgerAtStart,
                    atStart, quiet, addLog, savedAt >>
    /\ UNCHANGED << parserVars, enrichVars, retryVars, runVars, groupVars,
                    priceVars, providerVars >>

\* The page request that ends the loop: the function returns (line 90).
RequestLastPage ==
    /\ pc = "listing"
    /\ LoopEnds
    /\ requests' = Append(requests, before)
    /\ allSignatures' = Listed
    /\ pc' = "returned"
    /\ UNCHANGED << ledger, now, windowSeconds, historyFile, cursorFile,
                    history, cursor, windowStartTime, before, newSignatures,
                    i, migrations, outcomes, ret, classified, ledgerAtStart,
                    atStart, quiet, addLog, savedAt >>
    /\ UNCHANGED << parserVars, enrichVars, retryVars, runVars, groupVars,
                    priceVars, providerVars >>

\* A page request that fails after its retries: the function raises.
RequestPageFails ==
    /\ pc = "listing"
    /\ requests' = Append(requests, before)
    /\ pc' = "raised"
    /\ UNCHANGED << ledger, now, windowSeconds, historyFile, cursorFile,
                    history, cursor, windowStartTime, before, allSignatures,
                    newSignatures, i, migrations, outcomes, ret, classified,
                    ledgerAtStart, atStart, quiet, addLog, savedAt >>
    /\ UNCHANGED << parserVars, enrichVars, retryVars, runVars, groupVars,
                    priceVars, providerVars >>

NextPagination ==
    \/ RecordEntry
    \/ CallGetSignaturesInTimeWindow
    \/ RequestPage
    \/ RequestLastPage
    \/ RequestPageFails

SpecPagination == InitPagination /\ [][NextPagination]_vars

\* --------------------------------- the classifier taken by itself
\* Longest logMessages of a transaction.
MaxLogs == 2
\* Most token balance entries of a transaction, pre and post together.
MaxBalances == 3

\* tx.meta?.err: null, an error object, or undefined (no meta).
Errs == {"null", "InstructionError", "undefined"}

\* A log line, by the marker texts it contains.
LogLines ==
    {{}, {"Instruction: Migrate"}, {"Bonding curve already migrated"},
     {"Create"}, {"Instruction: Migrate", "Create"},
     {"Instruction: Migrate", "Bonding curve already migrated"}}

RECURSIVE SeqsUpTo(_, _)
\* The sequences over S of length at most n.
SeqsUpTo(S, n) ==
    IF n = 0 THEN {<< >>}
    ELSE LET shorter == SeqsUpTo(S, n - 1)
         IN  shorter \cup {Append(q, x) : q \in shorter, x \in S}

\* Programs among the account keys of a transaction.
Programs == {PUMPFUN_PROGRAM, DEX_PROGRAMS.PUMPSWAP, DEX_PROGRAMS.PUMPSWAP_AMM,
             DEX_PROGRAMS.RAYDIUM_AMM, DEX_PROGRAMS.RAYDIUM_CLMM}

RECURSIVE ListOf(_)
\* The members of a set, listed in some order.
ListOf(S) ==
    IF S = {} THEN << >>
    ELSE LET x == CHOOSE y \in S : TRUE IN << x >> \o ListOf(S \ {x})

\* message.accountKeys: any of the programs; empty also when the message
\* has no accountKeys field.
KeyLists == {ListOf(S) : S \in SUBSET Programs}

\* Token balance entries: a mint and uiTokenAmount.uiAmount (0 also
\* standing for a null uiAmount, which `|| 0` turns into 0).
BalanceEntries ==
    [mint : {"M1", "M2", "M3", "WSOL"}, uiAmount : {0, 100, 250}]

\* Transactions with any error field, log lines and account keys, and the
\* balances of a migration, of no token, or of two unchanged tokens.
DecisionTxs ==
    {[err |-> e, logMessages |-> l, accountKeys |-> k,
      preTokenBalances |-> b[1], postTokenBalances |-> b[2]] :
        e \in Errs, l \in SeqsUpTo(LogLines, MaxLogs), k \in KeyLists,
        b \in {<< GenuineTx.preTokenBalances, GenuineTx.postTokenBalances >>,
               << << >>, << >> >>,
               << << [mint |-> "M1", uiAmount |-> 100] >>,
                  << [mint |-> "M2", uiAmount |-> 0] >> >>}}

\* A transaction has been fetched (detector.ts line 60): one of those, or
\* one with the pattern of a migration and any pre- and post-balances of at
\* most MaxBalances entries together.
InitParser ==
    /\ \/ tx \in DecisionTxs
       \/ \E pre \in SeqsUpTo(BalanceEntries, MaxBalances) :
          \E post \in SeqsUpTo(BalanceEntries, MaxBalances - Len(pre)) :
             tx = [GenuineTx EXCEPT !.preTokenBalances = pre,
                                    !.postTokenBalances = post]
    /\ pc = "fetched"
    /\ verdict = NoVerdict
    /\ requests = << >>
    /\ toEnrich = << >>
    /\ enrichResults = << >>
    /\ enrichLog = << >>
    /\ options = NoOptions
    /\ attempt = 0
    /\ lastError = NoError
    /\ calls = << >>
    /\ sleeps = << >>
    /\ retried = NoOutcome
    /\ RunIdle
    /\ PriceIdle
    /\ ledger = << >>
    /\ now = 1
    /\ windowSeconds = 1
    /\ historyFile = NoHistoryFile
    /\ cursorFile = NoCursorFile
    /\ history = << >>
    /\ cursor = NullCursor
    /\ windowStartTime = 0
    /\ before = NoSig
    /\ allSignatures = << >>
    /\ newSignatures = << >>
    /\ i = 0
    /\ migrations = << >>
    /\ outcomes = << >>
    /\ ret = NoRet
    /\ classified = {}
    /\ ledgerAtStart = 0
    /\ atStart = NoStart
    /\ quiet = "no"
    /\ addLog = << >>
    /\ savedAt = 0

\* parseMigrationTransaction(signature, blockTime, tx, config) and the
\* three functions it calls, each applied to the transaction.
Classify ==
    /\ pc = "fetched"
    /\ pc' = "classified"
    /\ \E signature \in 1..2 :
          verdict' = [called |-> TRUE,
                      accepted |-> isMigrationTransaction(tx),
                      mint |-> extractMint(tx, IgnoreMints),
                      destination |-> detectDestination(tx),
                      parsed |-> parseMigrationTransaction(signature, 1, tx)]
    /\ UNCHANGED << tx, paginationVars, enrichVars, retryVars, runVars, groupVars,
                    priceVars, providerVars >>
    /\ UNCHANGED << ledger, now, windowSeconds, historyFile, cursorFile,
                    history, cursor, windowStartTime, before,
                    allSignatures, newSignatures, i, migrations, outcomes,
                    ret, classified, ledgerAtStart, atStart, quiet, addLog,
                    savedAt >>

NextParser == Classify

SpecParser == InitParser /\ [][NextParser]_vars

\* ------------------------------------- enrichMigrations (index.ts)
\* Longest list of migrations handed to enrichMigrations.
MaxMigrations == 2
\* The floor of the market-cap filter.
MarketCapFloor == 20000

\* null of a number (priceUsd, marketCapUsd, the token supply).
NoNumber == 0 - 1
\* JavaScript truthiness of a number-or-null: null and 0 are falsy.
Truthy(x) == x # NoNumber /\ x # 0

\* What priceProvider.getPrice does: raises, or returns a price and a
\* market cap, each a number or null.
Prices == {NoNumber, 0, 2}
MarketCaps == {NoNumber, 0, 19999, 20000, 30000}
PriceOutcomes ==
    [threw : {FALSE}, priceUsd : Prices, marketCapUsd : MarketCaps]
    \cup {[threw |-> TRUE, priceUsd |-> NoNumber, marketCapUsd |-> NoNumber]}
\* What rpcClient.getTokenSupply returns: the supply, or null on failure.
Supplies == {NoNumber, 0, 9999, 10000}
\* What fetchMetadata returns: a symbol and name, or all null.
Metadatas == {[symbol |-> "SYM", name |-> "Name"],
              [symbol |-> "null", name |-> "null"]}

\* formatIsoTime(blockTime)
formatIsoTime(unixTimestamp) == << "ISO-8601", unixTimestamp * 1000 >>

\* The k-th ParsedMigration of the argument.
MigrationNo(k) ==
    [signature |-> k, blockTime |-> k, mint |-> "M1", destination |-> "pumpswap"]

\* Lines 60-65: the price data after the lookup; a raised error leaves both
\* fields null.
PriceDataOf(priceOutcome) ==
    IF priceOutcome.threw
    THEN [priceUsd |-> NoNumber, marketCapUsd |-> NoNumber]
    ELSE [priceUsd |-> priceOutcome.priceUsd,
          marketCapUsd |-> priceOutcome.marketCapUsd]

\* Line 68: priceData.priceUsd && !priceData.marketCapUsd
AsksSupply(priceData) ==
    Truthy(priceData.priceUsd) /\ ~Truthy(priceData.marketCapUsd)

\* Lines 68-76: the market cap derived from the supply.
WithSupply(priceData, supply) ==
    IF AsksSupply(priceData) /\ Truthy(supply)
    THEN [priceData EXCEPT !.marketCapUsd = supply * priceData.priceUsd]
    ELSE priceData

\* A variant of the filter with a strict comparison.
PassesFloor_strict(priceData) ==
    Truthy(priceData.marketCapUsd) /\ priceData.marketCapUsd > MarketCapFloor

\* Line 79: priceData.marketCapUsd && priceData.marketCapUsd >= 20000
PassesFloor(priceData) ==
    Truthy(priceData.marketCapUsd) /\ priceData.marketCapUsd >= MarketCapFloor

\* Lines 80-89: the MigrationResult pushed.
ResultOf(migration, metadata, priceData) ==
    [time |-> formatIsoTime(migration.blockTime),
     signature |-> migration.signature,
     mint |-> migration.mint,
     symbol |-> metadata.symbol,
     name |-> metadata.name,
     market_cap_usd |-> priceData.marketCapUsd,
     price_usd |-> priceData.priceUsd,
     destination |-> migration.destination]

\* A variant in which a migration that is not emitted empties the list.
ResultsAfter_reset(results, passes, result) ==
    IF passes THEN Append(results, result) ELSE << >>

\* Lines 79-99: a migration that passes the filter is pushed; one that
\* does not, or whose enrichment raised, leaves the list as it is.
ResultsAfter(results, passes, result) ==
    IF passes THEN Append(results, result) ELSE results

\* enrichMigrations is called with a list of migrations (line 52).
InitEnrich ==
    /\ \E n \in 0..MaxMigrations : toEnrich = [k \in 1..n |-> MigrationNo(k)]
    /\ enrichResults = << >>
    /\ enrichLog = << >>
    /\ pc = "enriching"
    /\ options = NoOptions
    /\ attempt = 0
    /\ lastError = NoError
    /\ calls = << >>
    /\ sleeps = << >>
    /\ retried = NoOutcome
    /\ RunIdle
    /\ PriceIdle
    /\ requests = << >>
    /\ tx = NoTx
    /\ verdict = NoVerdict
    /\ ledger = << >>
    /\ now = 1
    /\ windowSeconds = 1
    /\ historyFile = NoHistoryFile
    /\ cursorFile = NoCursorFile
    /\ history = << >>
    /\ cursor = NullCursor
    /\ windowStartTime = 0
    /\ before = NoSig
    /\ allSignatures = << >>
    /\ newSignatures = << >>
    /\ i = 0
    /\ migrations = << >>
    /\ outcomes = << >>
    /\ ret = NoRet
    /\ classified = {}
    /\ ledgerAtStart = 0
    /\ atStart = NoStart
    /\ quiet = "no"
    /\ addLog = << >>
    /\ savedAt = 0

\* One iteration of the loop of enrichMigrations (lines 54-100): the
\* metadata and price lookups, the supply lookup when line 68 asks for
\* it, the filter.
EnrichNext ==
    /\ pc = "enriching"
    /\ Len(enrichLog) < Len(toEnrich)
    /\ \E metadata \in Metadatas, priceOutcome \in PriceOutcomes,
          supply \in Supplies :
          LET migration == toEnrich[Len(enrichLog) + 1]
              priceData == PriceDataOf(priceOutcome)
              asked == AsksSupply(priceData)
              final == WithSupply(priceData, supply)
          IN  /\ ~asked => supply = NoNumber
              /\ enrichLog' = Append(enrichLog,
                    [metadata |-> metadata, price |-> priceOutcome,
                     supplyAsked |-> asked, supply |-> supply,
                     final |-> final])
              /\ enrichResults' =
                    ResultsAfter(enrichResults, PassesFloor(final),
                                 ResultOf(migration, metadata, final))
    /\ UNCHANGED << toEnrich, pc, paginationVars, parserVars, retryVars, runVars, groupVars,
                    priceVars, providerVars >>
    /\ UNCHANGED << ledger, now, windowSeconds, historyFile, cursorFile,
                    history, cursor, windowStartTime, before,
                    allSignatures, newSignatures, i, migrations, outcomes,
                    ret, classified, ledgerAtStart, atStart, quiet, addLog,
                    savedAt >>

\* Line 102: return results.
EnrichReturns ==
    /\ pc = "enriching"
    /\ Len(enrichLog) = Len(toEnrich)
    /\ pc' = "returned"
    /\ UNCHANGED << enrichVars, paginationVars, parserVars, retryVars, runVars, groupVars,
                    priceVars, providerVars >>
    /\ UNCHANGED << ledger, now, windowSeconds, historyFile, cursorFile,
                    history, cursor, windowStartTime, before,
                    allSignatures, newSignatures, i, migrations, outcomes,
                    ret, classified, ledgerAtStart, atStart, quiet, addLog,
                    savedAt >>

NextEnrich == EnrichNext \/ EnrichReturns

SpecEnrich == InitEnrich /\ [][NextEnrich]_vars

\* ------------------------------------- runDetection, main (index.ts)
\* Lines 137-139: (x.market_cap_usd || 0)
CapOrZero(m) == IF Truthy(m.market_cap_usd) THEN m.market_cap_usd ELSE 0

\* The comparator of the sort: negative when a goes before b.
CompareMarketCap(a, b) == CapOrZero(b) - CapOrZero(a)

\* A variant that leaves the list as enrichMigrations returned it.
SortByMarketCap_unsorted(list) == list

RECURSIVE SortByMarketCap(_)
\* Array.prototype.sort with CompareMarketCap: a stable sort, each element
\* placed after the elements the comparator does not put behind it.
SortByMarketCap(list) ==
    IF list = << >> THEN << >>
    ELSE LET rest == SortByMarketCap(SubSeq(list, 1, Len(list) - 1))
             x == list[Len(list)]
             k == Cardinality({j \in 1..Len(rest) :
                                  CompareMarketCap(rest[j], x) <= 0})
         IN  SubSeq(rest, 1, k) \o << x >> \o SubSeq(rest, k + 1, Len(rest))

\* A variant of runDetection whose catch rethrows.
RunDetectionOutcome_rethrow(raised) ==
    IF raised THEN "raised" ELSE "completed"

\* Lines 123-154: whatever the body of the try raised is logged at line
\* 153, and runDetection completes.
RunDetectionOutcome(raised) == "completed"

\* main after `await runDetection(...)`: a rejection ends main (line 189);
\* else the loop sleeps in continuous mode, and main returns otherwise.
AfterRunDetection(outcome) ==
    IF outcome = "raised" THEN "crashed"
    ELSE IF continuous THEN "sleeping" ELSE "exited"

\* main up to the initial run (lines 157-173).
InitRun ==
    /\ continuous \in BOOLEAN
    /\ pc = "main"
    /\ published = NotPublished
    /\ lastOutcome = "none"
    /\ inProgress = 0
    /\ ops = << >>
    /\ settledOrder = << >>
    /\ PriceIdle
    /\ toEnrich = << >>
    /\ enrichResults = << >>
    /\ enrichLog = << >>
    /\ options = NoOptions
    /\ attempt = 0
    /\ lastError = NoError
    /\ calls = << >>
    /\ sleeps = << >>
    /\ retried = NoOutcome
    /\ requests = << >>
    /\ tx = NoTx
    /\ verdict = NoVerdict
    /\ ledger = << >>
    /\ now = 1
    /\ windowSeconds = 1
    /\ historyFile = NoHistoryFile
    /\ cursorFile = NoCursorFile
    /\ history = << >>
    /\ cursor = NullCursor
    /\ windowStartTime = 0
    /\ before = NoSig
    /\ allSignatures = << >>
    /\ newSignatures = << >>
    /\ i = 0
    /\ migrations = << >>
    /\ outcomes = << >>
    /\ ret = NoRet
    /\ classified = {}
    /\ ledgerAtStart = 0
    /\ atStart = NoStart
    /\ quiet = "no"
    /\ addLog = << >>
    /\ savedAt = 0

\* What the run leaves alone: the detector's own state and the other
\* single-function specifications.
RunFrame ==
    /\ UNCHANGED << continuous, paginationVars, parserVars, retryVars,
                    groupVars, priceVars, providerVars >>
    /\ UNCHANGED << ledger, now, windowSeconds, historyFile, cursorFile,
                    history, cursor, windowStartTime, before,
                    allSignatures, newSignatures, i, migrations, outcomes,
                    ret, classified, ledgerAtStart, atStart, quiet, addLog,
                    savedAt >>

\* main calls runDetection: the initial run (line 176), or the run after
\* the polling sleep (lines 183-184).
RunDetectionStarts ==
    /\ pc \in {"main", "sleeping"}
    /\ pc' = "detecting"
    /\ inProgress' = inProgress + 1
    /\ published' = NotPublished
    /\ toEnrich' = << >>
    /\ enrichResults' = << >>
    /\ enrichLog' = << >>
    /\ UNCHANGED lastOutcome
    /\ RunFrame

\* Line 125: detectMigrations returns its migrations, which line 129 hands
\* to enrichMigrations.
DetectReturns ==
    /\ pc = "detecting"
    /\ \E n \in 0..MaxMigrations : toEnrich' = [k \in 1..n |-> MigrationNo(k)]
    /\ pc' = "enriching"
    /\ UNCHANGED << enrichResults, enrichLog, published, lastOutcome,
                    inProgress >>
    /\ RunFrame

\* Line 125: detectMigrations raises (a listing error); line 152 catches.
DetectRaises ==
    /\ pc = "detecting"
    /\ lastOutcome' = "listing error"
    /\ inProgress' = inProgress - 1
    /\ pc' = AfterRunDetection(RunDetectionOutcome(TRUE))
    /\ UNCHANGED << enrichVars, published >>
    /\ RunFrame

\* Lines 136-150: enrichMigrations has returned; the list is sorted,
\* printed and handed to saveOutput, whose write succeeds or raises.
Publish ==
    /\ pc = "enriching"
    /\ Len(enrichLog) = Len(toEnrich)
    /\ published' = [written |-> TRUE,
                     migrations |-> SortByMarketCap(enrichResults)]
    /\ \E saved \in BOOLEAN :
          /\ lastOutcome' = IF saved THEN "saved" ELSE "output error"
          /\ pc' = AfterRunDetection(RunDetectionOutcome(~saved))
    /\ inProgress' = inProgress - 1
    /\ UNCHANGED enrichVars
    /\ RunFrame

NextRun ==
    \/ RunDetectionStarts
    \/ DetectReturns
    \/ DetectRaises
    \/ EnrichNext
    \/ Publish

SpecRun == InitRun /\ [][NextRun]_vars

\* ------------------------- GeckoTerminalProvider.getPrice (price/)
\* A field of the attributes of the API's answer: absent (undefined or
\* JSON null), the empty text, a text that is no number ("abc"), the text
\* of a number ("20000"), or a number followed by other text ("20000abc").
\* `value` is the number parseFloat reads from it.
Texts ==
    {[kind |-> "absent", value |-> 0], [kind |-> "empty", value |-> 0],
     [kind |-> "garbage", value |-> 0], [kind |-> "prefixed", value |-> 20000]}
    \cup [kind : {"number"}, value : {0, 20000, 30000}]

\* NaN, as parseFloat returns it.
NaN == 0 - 2

\* parseFloat(text): the number the text starts with, else NaN.
parseFloat(text) ==
    IF text.kind \in {"number", "prefixed"} THEN text.value ELSE NaN

\* JavaScript truthiness of a text-or-undefined: undefined, null and the
\* empty text are falsy.
TruthyText(text) == text.kind \notin {"absent", "empty"}

\* What the request of getPrice ends with (lines 60-72): status 404 (null),
\* a body without data or without attributes, a body with attributes, or
\* an error after the retries.
Responses ==
    {[kind |-> "404"], [kind |-> "no data"], [kind |-> "no attributes"],
     [kind |-> "error"]}
    \cup [kind : {"attributes"}, price_usd : Texts,
          market_cap_usd : Texts, fdv_usd : Texts]

\* A variant without the isNaN test.
NullIfNaN_keep(x) == x

\* Lines 90-91: !isNaN(x!) ? x : null
NullIfNaN(x) == IF x # NaN THEN x ELSE NoNumber

\* Lines 74-92: the PriceData getPrice returns for an answer.
PriceDataFrom(answer) ==
    IF answer.kind # "attributes"
    THEN [kind |-> "returned", priceUsd |-> NoNumber, marketCapUsd |-> NoNumber]
    ELSE LET priceUsd == IF TruthyText(answer.price_usd)
                         THEN parseFloat(answer.price_usd) ELSE NoNumber
             marketCapUsd ==
                 IF TruthyText(answer.market_cap_usd)
                 THEN parseFloat(answer.market_cap_usd)
                 ELSE IF TruthyText(answer.fdv_usd)
                      THEN parseFloat(answer.fdv_usd)
                      ELSE NoNumber
         IN  [kind |-> "returned", priceUsd |-> NullIfNaN(priceUsd),
              marketCapUsd |-> NullIfNaN(marketCapUsd)]

\* getPrice(mint) is called and its request has ended.
InitPrice ==
    /\ response \in Responses
    /\ quote = NoQuote
    /\ ProviderIdle
    /\ pc = "answered"
    /\ RunIdle
    /\ toEnrich = << >>
    /\ enrichResults = << >>
    /\ enrichLog = << >>
    /\ options = NoOptions
    /\ attempt = 0
    /\ lastError = NoError
    /\ calls = << >>
    /\ sleeps = << >>
    /\ retried = NoOutcome
    /\ requests = << >>
    /\ tx = NoTx
    /\ verdict = NoVerdict
    /\ ledger = << >>
    /\ now = 1
    /\ windowSeconds = 1
    /\ historyFile = NoHistoryFile
    /\ cursorFile = NoCursorFile
    /\ history = << >>
    /\ cursor = NullCursor
    /\ windowStartTime = 0
    /\ before = NoSig
    /\ allSignatures = << >>
    /\ newSignatures = << >>
    /\ i = 0
    /\ migrations = << >>
    /\ outcomes = << >>
    /\ ret = NoRet
    /\ classified = {}
    /\ ledgerAtStart = 0
    /\ atStart = NoStart
    /\ quiet = "no"
    /\ addLog = << >>
    /\ savedAt = 0

PriceFrame ==
    /\ UNCHANGED << response, paginationVars, parserVars, enrichVars,
                    retryVars, runVars, groupVars, providerVars >>
    /\ UNCHANGED << ledger, now, windowSeconds, historyFile, cursorFile,
                    history, cursor, windowStartTime, before,
                    allSignatures, newSignatures, i, migrations, outcomes,
                    ret, classified, ledgerAtStart, atStart, quiet, addLog,
                    savedAt >>

\* Lines 74-92: getPrice returns the price data of the answer.
GetPriceReturns ==
    /\ pc = "answered"
    /\ response.kind # "error"
    /\ quote' = PriceDataFrom(response)
    /\ pc' = "returned"
    /\ PriceFrame

\* Lines 93-98: the request raised after its retries, and getPrice
\* rethrows.
GetPriceRaises ==
    /\ pc = "answered"
    /\ response.kind = "error"
    /\ quote' = [kind |-> "raised"]
    /\ pc' = "raised"
    /\ PriceFrame

NextPrice == GetPriceReturns \/ GetPriceRaises

SpecPrice == InitPrice /\ [][NextPrice]_vars

\* ------------------------------------------ withRetry (utils/retry.ts)
\* Largest maxRetries option a caller passes.
MaxRetriesOption == 3
\* The defaults of the options (line 12).
DefaultMaxRetries == 3
DefaultBaseDelay == 1000
DefaultMaxDelay == 30000

\* An option that is not given.
Absent == 0 - 1
\* The options a caller passes: each absent or a value.
RetryOptions ==
    [maxRetries : {Absent} \cup 0..MaxRetriesOption,
     baseDelayMs : {Absent, 2000},
     maxDelayMs : {Absent, 3000}]

\* const { maxRetries = 3, baseDelayMs = 1000, maxDelayMs = 30000 } = options
maxRetries == IF options.maxRetries = Absent THEN DefaultMaxRetries
              ELSE options.maxRetries
baseDelayMs == IF options.baseDelayMs = Absent THEN DefaultBaseDelay
               ELSE options.baseDelayMs
maxDelayMs == IF options.maxDelayMs = Absent THEN DefaultMaxDelay
              ELSE options.maxDelayMs

\* An error message, by the marker texts it contains; an error without a
\* message contains none.
Messages == {{}, {"429"}, {"rate limit"}, {"Too Many Requests"},
             {"429", "Too Many Requests"}}

\* Lines 27-30: the message includes one of the three markers.
isRateLimited(error) ==
    \/ "429" \in error.message
    \/ "rate limit" \in error.message
    \/ "Too Many Requests" \in error.message

\* A variant without the cap.
RetryDelay_uncapped(error, n) ==
    baseDelayMs * (2 ^ n) * (IF isRateLimited(error) THEN 2 ELSE 1)

\* Lines 32-35: the delay after the failure of attempt n.
RetryDelay(error, n) ==
    Min(baseDelayMs * (2 ^ n) * (IF isRateLimited(error) THEN 2 ELSE 1),
        maxDelayMs)

\* A variant that keeps the first error.
CaughtError_first(previous, error) ==
    IF previous = NoError THEN error ELSE previous

\* Line 20: lastError = error
CaughtError(previous, error) == error

\* withRetry(fn, options) is called (lines 12-14).
InitRetry ==
    /\ options \in RetryOptions
    /\ attempt = 0
    /\ lastError = NoError
    /\ calls = << >>
    /\ sleeps = << >>
    /\ retried = NoOutcome
    /\ RunIdle
    /\ PriceIdle
    /\ pc = "attempt"
    /\ requests = << >>
    /\ tx = NoTx
    /\ verdict = NoVerdict
    /\ toEnrich = << >>
    /\ enrichResults = << >>
    /\ enrichLog = << >>
    /\ ledger = << >>
    /\ now = 1
    /\ windowSeconds = 1
    /\ historyFile = NoHistoryFile
    /\ cursorFile = NoCursorFile
    /\ history = << >>
    /\ cursor = NullCursor
    /\ windowStartTime = 0
    /\ before = NoSig
    /\ allSignatures = << >>
    /\ newSignatures = << >>
    /\ i = 0
    /\ migrations = << >>
    /\ outcomes = << >>
    /\ ret = NoRet
    /\ classified = {}
    /\ ledgerAtStart = 0
    /\ atStart = NoStart
    /\ quiet = "no"
    /\ addLog = << >>
    /\ savedAt = 0

\* Line 18: fn() resolves; withRetry returns its value.
InvokeSucceeds ==
    /\ pc = "attempt"
    /\ attempt <= maxRetries
    /\ LET value == Len(calls) + 1
       IN  /\ calls' = Append(calls, [ok |-> TRUE, value |-> value,
                                      error |-> NoError])
           /\ retried' = [kind |-> "returned", value |-> value]
    /\ pc' = "returned"
    /\ UNCHANGED << options, attempt, lastError, sleeps >>
    /\ UNCHANGED << paginationVars, parserVars, enrichVars, runVars, groupVars,
                    priceVars, providerVars >>
    /\ UNCHANGED << ledger, now, windowSeconds, historyFile, cursorFile,
                    history, cursor, windowStartTime, before,
                    allSignatures, newSignatures, i, migrations, outcomes,
                    ret, classified, ledgerAtStart, atStart, quiet, addLog,
                    savedAt >>

\* Lines 19-38: fn() rejects; on the last attempt the loop is left and the
\* error is thrown (line 42), otherwise the delay is computed and slept.
InvokeFails ==
    /\ pc = "attempt"
    /\ attempt <= maxRetries
    /\ \E message \in Messages :
          LET error == [message |-> message, invocation |-> Len(calls) + 1]
          IN  /\ calls' = Append(calls, [ok |-> FALSE, value |-> 0,
                                         error |-> error])
              /\ lastError' = CaughtError(lastError, error)
              /\ IF attempt = maxRetries
                 THEN /\ retried' = [kind |-> "raised", error |-> lastError']
                      /\ pc' = "raised"
                      /\ UNCHANGED sleeps
                 ELSE /\ sleeps' = Append(sleeps, RetryDelay(lastError', attempt))
                      /\ pc' = "sleeping"
                      /\ UNCHANGED retried
    /\ UNCHANGED << options, attempt >>
    /\ UNCHANGED << paginationVars, parserVars, enrichVars, runVars, groupVars,
                    priceVars, providerVars >>
    /\ UNCHANGED << ledger, now, windowSeconds, historyFile, cursorFile,
                    history, cursor, windowStartTime, before,
                    allSignatures, newSignatures, i, migrations, outcomes,
                    ret, classified, ledgerAtStart, atStart, quiet, addLog,
                    savedAt >>

\* The sleep of line 38 ends: the loop goes to the next attempt.
SleepEnds ==
    /\ pc = "sleeping"
    /\ attempt' = attempt + 1
    /\ pc' = "attempt"
    /\ UNCHANGED << options, lastError, calls, sleeps, retried >>
    /\ UNCHANGED << paginationVars, parserVars, enrichVars, runVars, groupVars,
                    priceVars, providerVars >>
    /\ UNCHANGED << ledger, now, windowSeconds, historyFile, cursorFile,
                    history, cursor, windowStartTime, before,
                    allSignatures, newSignatures, i, migrations, outcomes,
                    ret, classified, ledgerAtStart, atStart, quiet, addLog,
                    savedAt >>

NextRetry == InvokeSucceeds \/ InvokeFails \/ SleepEnds

SpecRetry == InitRetry /\ [][NextRetry]_vars

\* ---------------- the price lookup: getPrice with its requests (price/)
\* { maxRetries: 2 } of the withRetry call of getPrice (line 72).
PriceMaxRetries == 2

\* The bodies a 200 answer carries: the JSON bodies of Responses, or a
\* text res.json() rejects.
Bodies ==
    {r \in Responses : r.kind \in {"no data", "no attributes", "attributes"}}
    \cup {[kind |-> "invalid"]}

\* What one fetch of line 61 ends with: an answer with a status (200 with
\* a body, 404, 429, 500), or a rejection (status 0: no answer).
HttpAnswers ==
    [status : {0, 404, 429, 500}, body : {NoResponse}]
    \cup [status : {200}, body : Bodies]

\* A variant in which a 404 answer is an error like the other non-OK ones.
FetchOutcome_notFoundThrows(res) ==
    IF res.status = 0 THEN "throw"
    ELSE IF res.status # 200 THEN "throw"
    ELSE IF res.body.kind = "invalid" THEN "throw"
    ELSE "json"

\* Lines 61-71: what the function handed to withRetry does with the
\* answer: a rejected fetch raises, 404 returns null, another non-OK
\* status raises, and otherwise the parsed body is returned (res.json()
\* raises on a body that is no JSON).
FetchOutcome(res) ==
    IF res.status = 0 THEN "throw"
    ELSE IF res.status = 404 THEN "null"
    ELSE IF res.status # 200 THEN "throw"
    ELSE IF res.body.kind = "invalid" THEN "throw"
    ELSE "json"

\* The marker texts in the message of the error raised for an answer:
\* `Price API error: ${res.status}` (line 68) holds the status.
MessageOf(res) == IF res.status = 429 THEN {"429"} ELSE {}

\* enrichMigrations reaches the price lookup of one migration (line 60)
\* and getPrice calls withRetry (line 60 of the provider).
InitLookup ==
    /\ options = [maxRetries |-> PriceMaxRetries, baseDelayMs |-> Absent,
                  maxDelayMs |-> Absent]
    /\ attempt = 0
    /\ lastError = NoError
    /\ calls = << >>
    /\ sleeps = << >>
    /\ retried = NoOutcome
    /\ RunIdle
    /\ PriceIdle
    /\ pc = "attempt"
    /\ requests = << >>
    /\ tx = NoTx
    /\ verdict = NoVerdict
    /\ toEnrich = << >>
    /\ enrichResults = << >>
    /\ enrichLog = << >>
    /\ ledger = << >>
    /\ now = 1
    /\ windowSeconds = 1
    /\ historyFile = NoHistoryFile
    /\ cursorFile = NoCursorFile
    /\ history = << >>
    /\ cursor = NullCursor
    /\ windowStartTime = 0
    /\ before = NoSig
    /\ allSignatures = << >>
    /\ newSignatures = << >>
    /\ i = 0
    /\ migrations = << >>
    /\ outcomes = << >>
    /\ ret = NoRet
    /\ classified = {}
    /\ ledgerAtStart = 0
    /\ atStart = NoStart
    /\ quiet = "no"
    /\ addLog = << >>
    /\ savedAt = 0

LookupFrame ==
    /\ UNCHANGED << paginationVars, parserVars, enrichVars, runVars,
                    groupVars >>
    /\ UNCHANGED << ledger, now, windowSeconds, historyFile, cursorFile,
                    history, cursor, windowStartTime, before,
                    allSignatures, newSignatures, i, migrations, outcomes,
                    ret, classified, ledgerAtStart, atStart, quiet, addLog,
                    savedAt >>

\* One request whose answer the function returns (lines 61-71, and line
\* 18 of withRetry): null for 404, the body otherwise.
FetchResolves ==
    /\ pc = "attempt"
    /\ attempt <= maxRetries
    /\ \E res \in HttpAnswers :
          /\ FetchOutcome(res) # "throw"
          /\ calls' = Append(calls, [ok |-> TRUE, value |-> res.status,
                                     error |-> NoError])
          /\ retried' = [kind |-> "returned", value |-> res.status]
          /\ response' = IF FetchOutcome(res) = "null"
                         THEN [kind |-> "404"] ELSE res.body
    /\ pc' = "answered"
    /\ UNCHANGED << options, attempt, lastError, sleeps, quote,
                    providerVars >>
    /\ LookupFrame

\* One request after which the function raises (lines 61-71): withRetry
\* sleeps and tries again, or after the last attempt raises (lines 19-42
\* of withRetry).
FetchRejects ==
    /\ pc = "attempt"
    /\ attempt <= maxRetries
    /\ \E res \in HttpAnswers :
          LET error == [message |-> MessageOf(res),
                        invocation |-> Len(calls) + 1]
          IN  /\ FetchOutcome(res) = "throw"
              /\ calls' = Append(calls, [ok |-> FALSE, value |-> res.status,
                                         error |-> error])
              /\ lastError' = CaughtError(lastError, error)
              /\ IF attempt = maxRetries
                 THEN /\ retried' = [kind |-> "raised", error |-> lastError']
                      /\ response' = [kind |-> "error"]
                      /\ pc' = "answered"
                      /\ UNCHANGED sleeps
                 ELSE /\ sleeps' = Append(sleeps, RetryDelay(lastError', attempt))
                      /\ pc' = "sleeping"
                      /\ UNCHANGED << retried, response >>
    /\ UNCHANGED << options, attempt, quote, providerVars >>
    /\ LookupFrame

\* Lines 59-65 of index.ts: priceData is what getPrice returned; when
\* getPrice raised, the catch leaves both fields null and the enrichment
\* of the migration goes on with line 68.
LookupEnds ==
    /\ pc \in {"returned", "raised"}
    /\ lookedUp = NoPriceData
    /\ quote # NoQuote
    /\ lookedUp' =
          PriceDataOf(IF quote.kind = "raised"
                      THEN [threw |-> TRUE, priceUsd |-> NoNumber,
                            marketCapUsd |-> NoNumber]
                      ELSE [threw |-> FALSE, priceUsd |-> quote.priceUsd,
                            marketCapUsd |-> quote.marketCapUsd])
    /\ pc' = "supply"
    /\ UNCHANGED << apiKey, lastRequestTime, priceCalls, priceVars,
                    retryVars >>
    /\ LookupFrame

NextLookup ==
    \/ FetchResolves
    \/ FetchRejects
    \/ SleepEnds
    \/ GetPriceReturns
    \/ GetPriceRaises
    \/ LookupEnds

SpecLookup == InitLookup /\ [][NextLookup]_vars

\* --------------- GeckoTerminalProvider.rateLimit (price/geckoterminal.ts)
\* Most getPrice calls made on the provider.
MaxPriceCalls == 3
\* The clock advances in steps of ClockStep ms, MaxElapsed ms at most.
ClockStep == 25
MaxElapsed == 400
\* Date.now() when the provider is constructed; lastRequestTime starts at
\* 0, far in the past.
StartClock == 1000
\* minRequestInterval: the default (line 21) and with an API key (line 29).
DefaultInterval == 200
KeyInterval == 50

\* Lines 21, 28-30.
minRequestInterval == IF apiKey THEN KeyInterval ELSE DefaultInterval

\* new GeckoTerminalProvider(apiKey) (lines 20-31).
InitLimiter ==
    /\ apiKey \in BOOLEAN
    /\ lastRequestTime = 0
    /\ priceCalls = << >>
    /\ lookedUp = NoPriceData
    /\ now = StartClock
    /\ pc = "provider"
    /\ response = NoResponse
    /\ quote = NoQuote
    /\ RunIdle
    /\ options = NoOptions
    /\ attempt = 0
    /\ lastError = NoError
    /\ calls = << >>
    /\ sleeps = << >>
    /\ retried = NoOutcome
    /\ requests = << >>
    /\ tx = NoTx
    /\ verdict = NoVerdict
    /\ toEnrich = << >>
    /\ enrichResults = << >>
    /\ enrichLog = << >>
    /\ ledger = << >>
    /\ windowSeconds = 1
    /\ historyFile = NoHistoryFile
    /\ cursorFile = NoCursorFile
    /\ history = << >>
    /\ cursor = NullCursor
    /\ windowStartTime = 0
    /\ before = NoSig
    /\ allSignatures = << >>
    /\ newSignatures = << >>
    /\ i = 0
    /\ migrations = << >>
    /\ outcomes = << >>
    /\ ret = NoRet
    /\ classified = {}
    /\ ledgerAtStart = 0
    /\ atStart = NoStart
    /\ quiet = "no"
    /\ addLog = << >>
    /\ savedAt = 0

LimiterFrame ==
    /\ UNCHANGED << apiKey, lookedUp, pc, paginationVars, parserVars,
                    enrichVars, retryVars, runVars, groupVars, priceVars >>
    /\ UNCHANGED << ledger, windowSeconds, historyFile, cursorFile,
                    history, cursor, windowStartTime, before,
                    allSignatures, newSignatures, i, migrations, outcomes,
                    ret, classified, ledgerAtStart, atStart, quiet, addLog,
                    savedAt >>

\* getPrice is called (line 42) and rateLimit runs up to its await
\* (lines 34-38): it reads the clock and either sleeps for the rest of
\* the interval, or stamps lastRequestTime (line 39) and the first
\* request of the call goes out (line 61).
CallGetPrice ==
    /\ Len(priceCalls) < MaxPriceCalls
    /\ LET elapsed == now - lastRequestTime
       IN  IF elapsed < minRequestInterval
           THEN /\ priceCalls' = Append(priceCalls,
                      [at |-> "sleeping", calledAt |-> now,
                       wakeAt |-> now + (minRequestInterval - elapsed),
                       requestedAt |-> 0])
                /\ UNCHANGED lastRequestTime
           ELSE /\ priceCalls' = Append(priceCalls,
                      [at |-> "requested", calledAt |-> now,
                       wakeAt |-> now, requestedAt |-> now])
                /\ lastRequestTime' = now
    /\ UNCHANGED now
    /\ LimiterFrame

\* The sleep of line 37 of a call ends, at its time or later: the call
\* stamps lastRequestTime (line 39) and its first request goes out.
RateLimitWakes ==
    /\ \E k \in 1..Len(priceCalls) :
          /\ priceCalls[k].at = "sleeping"
          /\ now >= priceCalls[k].wakeAt
          /\ priceCalls' = [priceCalls EXCEPT ![k].at = "requested",
                                              ![k].requestedAt = now]
    /\ lastRequestTime' = now
    /\ UNCHANGED now
    /\ LimiterFrame

\* Time passes.
ClockAdvances ==
    /\ now + ClockStep <= StartClock + MaxElapsed
    /\ now' = now + ClockStep
    /\ UNCHANGED << lastRequestTime, priceCalls >>
    /\ LimiterFrame

NextLimiter == CallGetPrice \/ RateLimitWakes \/ ClockAdvances

SpecLimiter == InitLimiter /\ [][NextLimiter]_vars

\* ------------------- detection cycles of one process, on any ledger
\* The ledgers a cycle may meet: block times never decrease along the
\* ledger, and any entry may lack its block time.
Ledgers ==
    {l \in SeqsUpTo(1..MaxTime \cup {NoTime}, MaxLedger) :
        \A j, k \in 1..Len(l) :
           (j < k /\ l[j] # NoTime /\ l[k] # NoTime) => l[j] <= l[k]}

\* A new process (main, lines 157-176) on a fresh data directory, the
\* ledger being any of Ledgers.
InitCycle ==
    /\ ledger \in Ledgers
    /\ now = MaxTime
    /\ windowSeconds \in WindowChoices
    /\ historyFile = NoHistoryFile
    /\ cursorFile = NoCursorFile
    /\ history = loadHistory(historyFile)
    /\ pc = "idle"
    /\ cursor = NullCursor
    /\ windowStartTime = 0
    /\ before = NoSig
    /\ allSignatures = << >>
    /\ newSignatures = << >>
    /\ i = 0
    /\ migrations = << >>
    /\ outcomes = << >>
    /\ ret = NoRet
    /\ classified = {}
    /\ ledgerAtStart = 0
    /\ atStart = NoStart
    /\ quiet = "no"
    /\ addLog = << >>
    /\ savedAt = 0
    /\ UnitInit

\* The steps of a running detectMigrations call: each is the end of an
\* awaited RPC call (a page of the listing, the fetches of a group) or
\* runs without waiting (the file writes).
CycleStep ==
    \/ ListPageFails
    \/ ListNextPage
    \/ ListingEndsEmpty
    \/ ListingEndsNew
    \/ ProcessGroup
    \/ SaveCursor

\* The process keeps running: cycle after cycle, the chain recording new
\* transactions at any moment.
NextCycle ==
    \/ StartCycle
    \/ CycleStep
    \/ Finish
    \/ NewSignature

\* Every RPC call eventually returns or fails: a cycle that can take a
\* step eventually takes one.
SpecCycleFair == InitCycle /\ [][NextCycle]_vars /\ WF_vars(CycleStep)

\* =================================================================== claims

\* C1: no signature is fetched and classified by more than one cycle of
\* detectMigrations, also across restarts and a stop between the two file
\* writes: a group never classifies a signature an earlier cycle classified.
C1_NoDoubleCounting ==
    [][\A k \in 1..Len(outcomes') :
          (k > Len(outcomes) /\ outcomes'[k] \notin {"throw", "null"})
              => newSignatures[k].signature \notin classified]_vars

\* C2: a cycle that follows a completed cycle of the same process, with no
\* new signature on the ledger since that first cycle began, returns no
\* migration and fetches no transaction.
C2_SecondRunEmpty ==
    (pc = "returned" /\ quiet = "second")
        => (ret.migrations = << >> /\ newSignatures = << >> /\ outcomes = << >>)

\* The second of two such cycles has returned, and its listing was not empty.
C2_Witness ==
    pc = "returned" /\ quiet = "second" /\ allSignatures # << >>

\* C3: when a cycle has returned, every signature the ledger held at its
\* start that has a block time, is newer than the loaded cursor and is not
\* older than the window start is in the history set.
C3_AtLeastOnce ==
    pc = "returned" =>
        \A s \in 1..ledgerAtStart :
            (ledger[s] # NoTime /\ s > cursor.newestSignature
                /\ ledger[s] >= windowStartTime)
                => isProcessed(history, s)

\* C4: the history file never holds more than the cap, and after a save it
\* holds the distinct signatures added up to that save, in the order of
\* their first insertion, less all but the last cap of them.
C4_HistoryBound ==
    LET added == Dedup(SubSeq(addLog, 1, savedAt))
        n == Len(added)
        saved == historyFile.processedSignatures
    IN  /\ Len(saved) <= HistoryCap
        /\ Len(saved) = Min(n, HistoryCap)
        /\ \A k \in 1..Len(saved) : saved[k] = added[n - Len(saved) + k]

\* More distinct signatures than the cap were saved, one of them added twice.
C4_Witness ==
    /\ Len(Dedup(SubSeq(addLog, 1, savedAt))) > HistoryCap
    /\ Len(Dedup(SubSeq(addLog, 1, savedAt))) < savedAt

\* C5: a signature whose fetch raised in a cycle is not in the history set
\* when that cycle returns.
C5_FailedNotProcessed ==
    pc = "returned" =>
        \A k \in 1..Len(outcomes) :
            outcomes[k] = "throw"
                => ~isProcessed(history, newSignatures[k].signature)

\* C6 as stated: once all groups are done, every signature that was
\* unprocessed at the start of the cycle is in the history set and in the
\* history file.
C6_AllNewPersisted ==
    pc \in {"saveCursor", "returned"} =>
        \A k \in 1..Len(newSignatures) :
            /\ isProcessed(history, newSignatures[k].signature)
            /\ isProcessed(historyFile.processedSignatures,
                           newSignatures[k].signature)

\* C6 amended: once all groups are done, every signature that was
\* unprocessed at the start of the cycle is in the history set, whatever its
\* fetch did, and the last min(n, cap) of the n unprocessed signatures, in
\* listing order, are in the history file.
C6_AllNewInHistory ==
    pc \in {"saveCursor", "returned"} =>
        \A k \in 1..Len(newSignatures) :
            /\ isProcessed(history, newSignatures[k].signature)
            /\ k > Len(newSignatures) - HistoryCap
                  => isProcessed(historyFile.processedSignatures,
                                 newSignatures[k].signature)

\* A cycle with more unprocessed signatures than the cap has returned, one
\* of its fetches having raised.
C6_Witness ==
    /\ pc = "returned"
    /\ Len(newSignatures) > HistoryCap
    /\ \E k \in 1..Len(outcomes) : outcomes[k] = "throw"

\* C7: when detectMigrations raises, the history file, the cursor file and
\* the history set are what they were when the cycle started.
C7_ListingFailureFrame ==
    pc = "raised" =>
        /\ historyFile = atStart.historyFile
        /\ cursorFile = atStart.cursorFile
        /\ history = atStart.history

\* The listing raised on a later page, with state on disk from earlier cycles.
C7_Witness ==
    /\ pc = "raised"
    /\ allSignatures # << >>
    /\ historyFile.kind = "json"
    /\ cursorFile.kind = "json"

\* C8: detectMigrations raises only out of the listing, never once fetches
\* have begun, and a cycle that returns has a ParsedMigration for every new
\* signature whose transaction was fetched and is a genuine migration.
C8_FailuresDoNotAbort ==
    /\ pc = "raised" => outcomes = << >>
    /\ pc = "returned" =>
          \A k \in 1..Len(outcomes) :
              outcomes[k] = "genuine" =>
                  \E n \in 1..Len(ret.migrations) :
                      /\ ret.migrations[n].signature = newSignatures[k].signature
                      /\ ret.migrations[n].blockTime = newSignatures[k].blockTime
                      /\ ret.migrations[n].mint = "M1"

\* A cycle returned in which one fetch raised and another was a migration.
C8_Witness ==
    /\ pc = "returned"
    /\ \E k \in 1..Len(outcomes) : outcomes[k] = "throw"
    /\ \E k \in 1..Len(outcomes) : outcomes[k] = "genuine"

\* C9 as stated: after a cycle with a new signature, the cursor file holds
\* the first signature of the cycle's listing and its block time, and the
\* returned cursor is the cursor file.
C9_CursorIsNewestListed ==
    (pc = "returned" /\ newSignatures # << >>) =>
        /\ cursorFile.kind = "json"
        /\ cursorFile.data.newestSignature = allSignatures[1].signature
        /\ cursorFile.data.newestBlockTime = allSignatures[1].blockTime
        /\ ret.cursor = cursorFile.data

\* C9 amended: after a cycle with a new signature, the cursor file holds the
\* first unprocessed signature of the cycle's listing and its block time,
\* and the returned cursor is the cursor file.
C9_CursorIsNewestUnprocessed ==
    (pc = "returned" /\ newSignatures # << >>) =>
        /\ cursorFile.kind = "json"
        /\ cursorFile.data.newestSignature = newSignatures[1].signature
        /\ cursorFile.data.newestBlockTime = newSignatures[1].blockTime
        /\ ret.cursor = cursorFile.data

\* A cycle returned whose newest listed signature was already processed
\* while an older one was not.
C9_Witness ==
    /\ pc = "returned"
    /\ newSignatures # << >>
    /\ newSignatures[1] # allSignatures[1]

\* C10: a cycle that finds no unprocessed signature returns no migration
\* and the cursor it loaded, and leaves the history file, the cursor file
\* (lastRunAt included) and the history set as they were.
C10_EmptyBatchFrame ==
    (pc = "returned" /\ newSignatures = << >>) =>
        /\ ret.migrations = << >>
        /\ ret.cursor = loadCursor(atStart.cursorFile)
        /\ cursorFile = atStart.cursorFile
        /\ historyFile = atStart.historyFile
        /\ history = atStart.history

\* An empty cycle returned later than the last run recorded in the cursor,
\* its listing holding processed signatures only.
C10_Witness ==
    /\ pc = "returned"
    /\ newSignatures = << >>
    /\ allSignatures # << >>
    /\ cursorFile.kind = "json"
    /\ cursorFile.data.lastRunAt < now

\* C11: when the entries the window does not exclude (a block time inside
\* the window, or no block time) number page size - 1 and the ledger holds
\* an older entry outside the window, getSignaturesInTimeWindow returns
\* every entry with a block time inside the window that is newer than
\* `until`, newest first, and has issued exactly one page request.
C11_ShortWindowOneRequest ==
    LET len == Len(ledger)
        desc == [k \in 1..len |-> len - k + 1]
        notExcluded == {s \in 1..len :
                           ledger[s] = NoTime \/ ledger[s] >= windowStartTime}
        inWindow(s) == /\ ledger[s] # NoTime
                       /\ ledger[s] >= windowStartTime
                       /\ s > cursor.newestSignature
    IN  (/\ pc = "returned"
         /\ Cardinality(notExcluded) = PageSize - 1
         /\ \E s \in 1..len : ledger[s] # NoTime /\ ledger[s] < windowStartTime)
            => /\ Len(requests) = 1
               /\ SignaturesOf(allSignatures) = SelectSeq(desc, inWindow)

\* Such a call has returned page size - 1 entries.
C11_Witness ==
    /\ pc = "returned"
    /\ Cardinality({s \in 1..Len(ledger) :
                       ledger[s] = NoTime \/ ledger[s] >= windowStartTime})
          = PageSize - 1
    /\ \E s \in 1..Len(ledger) : ledger[s] # NoTime /\ ledger[s] < windowStartTime
    /\ Len(allSignatures) = PageSize - 1
    /\ Len(ledger) > PageSize

\* C12 as stated: when the newest three pages of the ledger are inside the
\* window, every entry has a block time, anything older is outside the
\* window and no `until` is given, getSignaturesInTimeWindow has issued
\* exactly three page requests, each from the last signature of the page
\* before.
C12_ThreePagesThreeRequests ==
    LET len == Len(ledger)
    IN  (/\ pc = "returned"
         /\ len >= 3 * PageSize
         /\ cursor.newestSignature = NoSig
         /\ \A s \in 1..len :
               /\ ledger[s] # NoTime
               /\ (ledger[s] >= windowStartTime) <=> (s > len - 3 * PageSize))
            => requests = << NoSig, len - PageSize + 1, len - 2 * PageSize + 1 >>

\* C12 amended: in that case (`until` absent or older than the three
\* pages) the function has issued exactly four page requests, each from the
\* last signature of the page before, and returns the three pages.
C12_ThreePagesFourRequests ==
    LET len == Len(ledger)
        desc == [k \in 1..len |-> len - k + 1]
    IN  (/\ pc = "returned"
         /\ len >= 3 * PageSize
         /\ cursor.newestSignature <= len - 3 * PageSize
         /\ \A s \in 1..len :
               /\ ledger[s] # NoTime
               /\ (ledger[s] >= windowStartTime) <=> (s > len - 3 * PageSize))
            => /\ requests = << NoSig, len - PageSize + 1,
                                len - 2 * PageSize + 1, len - 3 * PageSize + 1 >>
               /\ SignaturesOf(allSignatures) = SubSeq(desc, 1, 3 * PageSize)

\* Three full pages were returned, with an older entry beyond them.
C12_Witness ==
    /\ pc = "returned"
    /\ Len(ledger) = 3 * PageSize + 1
    /\ \A s \in 1..Len(ledger) :
          /\ ledger[s] # NoTime
          /\ (ledger[s] >= windowStartTime) <=> (s > 1)
    /\ Len(allSignatures) = 3 * PageSize
    /\ Len(requests) = 4

\* C13: parseMigrationTransaction returns null for every transaction whose
\* error field is not null, whatever its logs, account keys and balances.
C13_ErrorRejected ==
    (verdict.called /\ tx.err # "null") => verdict.parsed = << >>

\* A failed transaction with the migrate marker, the launchpad program and
\* a token balance has been classified.
C13_Witness ==
    /\ verdict.called
    /\ tx.err # "null"
    /\ SomeLog(tx.logMessages, "Instruction: Migrate")
    /\ ~SomeLog(tx.logMessages, "Bonding curve already migrated")
    /\ Includes(tx.accountKeys, PUMPFUN_PROGRAM)
    /\ tx.preTokenBalances # << >>

\* C14: parseMigrationTransaction returns null for every transaction whose
\* logs hold a line with 'Instruction: Migrate' and a line with 'Bonding
\* curve already migrated'.
C14_AlreadyMigratedRejected ==
    (/\ verdict.called
     /\ \E k \in 1..Len(tx.logMessages) :
           "Instruction: Migrate" \in tx.logMessages[k]
     /\ \E k \in 1..Len(tx.logMessages) :
           "Bonding curve already migrated" \in tx.logMessages[k])
        => verdict.parsed = << >>

\* A successful transaction of the launchpad program with both markers, on
\* different lines, has been classified.
C14_Witness ==
    /\ verdict.called
    /\ tx.err = "null"
    /\ Includes(tx.accountKeys, PUMPFUN_PROGRAM)
    /\ tx.preTokenBalances # << >>
    /\ tx.logMessages = << {"Instruction: Migrate"},
                           {"Bonding curve already migrated"} >>

\* C15: with two or more candidate mints extractMint returns the
\* candidate of largest absolute change, the first encountered among those
\* of equal largest change.
C15_LargestChangeFirstWins ==
    LET both == tx.preTokenBalances \o tx.postTokenBalances
        cands == {both[k].mint : k \in 1..Len(both)} \ IgnoreMints
        first(m) == CHOOSE k \in 1..Len(both) :
                        /\ both[k].mint = m
                        /\ \A j \in 1..(k - 1) : both[j].mint # m
        change(m) == Abs(SumUi(tx.postTokenBalances, m)
                         - SumUi(tx.preTokenBalances, m))
        largest == {m \in cands : \A o \in cands : change(o) <= change(m)}
    IN  (verdict.called /\ Cardinality(cands) >= 2)
            => /\ verdict.mint \in largest
               /\ \A o \in largest : first(verdict.mint) <= first(o)

C17_MarketCapFallback ==
    \A k \in 1..Len(enrichLog) :
        LET e == enrichLog[k]
            emittedWith(cap) ==
                /\ (\E r \in 1..Len(enrichResults) :
                        enrichResults[r].signature = toEnrich[k].signature)
                       <=> cap >= MarketCapFloor
                /\ \A r \in 1..Len(enrichResults) :
                      enrichResults[r].signature = toEnrich[k].signature
                          => enrichResults[r].market_cap_usd = cap
        IN  /\ e.supplyAsked =>
                  /\ ~e.price.threw
                  /\ e.price.priceUsd # NoNumber
                  /\ e.price.marketCapUsd = NoNumber
            /\ (~e.price.threw /\ e.price.marketCapUsd # NoNumber)
                  => emittedWith(e.price.marketCapUsd)
            /\ (/\ ~e.price.threw
                 /\ e.price.priceUsd # NoNumber
                 /\ e.price.marketCapUsd = NoNumber
                 /\ e.supplyAsked
                 /\ e.supply # NoNumber)
                  => emittedWith(e.supply * e.price.priceUsd)

\* C18: the migrations a cycle returns are exactly one ParsedMigration for
\* each new signature whose fetched transaction is a genuine migration, in
\* the order of the listing and with that signature and block time, and
\* none for a signature whose transaction is an already-migrated duplicate,
\* was not found or could not be fetched.
C18_OnePerGenuineMigration ==
    pc = "returned" =>
        LET genuine == SelectSeq([k \in 1..Len(newSignatures) |-> k],
                                 LAMBDA k : outcomes[k] = "genuine")
        IN  ret.migrations =
                [j \in 1..Len(genuine) |->
                    [signature |-> newSignatures[genuine[j]].signature,
                     blockTime |-> newSignatures[genuine[j]].blockTime,
                     mint |-> "M1",
                     destination |-> "pumpswap"]]

\* A cycle listed a genuine migration of M1 together with an
\* already-migrated duplicate and returned one ParsedMigration.
C18_Witness ==
    /\ pc = "returned"
    /\ Len(newSignatures) = 2
    /\ \E k \in 1..2 : outcomes[k] = "genuine"
    /\ \E k \in 1..2 : outcomes[k] = "duplicate"
    /\ Len(ret.migrations) = 1
    /\ ret.migrations[1].mint = "M1"

\* C19: withRetry invokes fn at most maxRetries + 1 times (4 with the
\* default), returns the value of the first invocation that succeeds
\* without invoking fn again, and when all maxRetries + 1 invocations fail
\* raises the error of the last one, having slept maxRetries times only.
C19_RetryBound ==
    /\ Len(calls) <= maxRetries + 1
    /\ options.maxRetries = Absent => Len(calls) <= 4
    /\ \A k \in 1..(Len(calls) - 1) : ~calls[k].ok
    /\ pc = "returned" =>
          /\ calls[Len(calls)].ok
          /\ retried = [kind |-> "returned", value |-> calls[Len(calls)].value]
    /\ pc = "raised" =>
          /\ Len(calls) = maxRetries + 1
          /\ ~calls[Len(calls)].ok
          /\ retried = [kind |-> "raised", error |-> calls[Len(calls)].error]
          /\ Len(sleeps) = maxRetries

\* With the default options four invocations failed, the last with another
\* message than the first, and withRetry raised.
C19_Witness ==
    /\ pc = "raised"
    /\ options.maxRetries = Absent
    /\ Len(calls) = 4
    /\ calls[1].error.message # calls[4].error.message

\* C20: the k-th sleep, after the failure of attempt k - 1, lasts
\* min(baseDelay * 2^(k-1) * m, maxDelay), m being 2 when the message of
\* that failure contains '429', 'rate limit' or 'Too Many Requests' and 1
\* otherwise; no sleep is longer than maxDelay.
C20_RetryBackoff ==
    \A k \in 1..Len(sleeps) :
        LET message == calls[k].error.message
            m == IF message \cap {"429", "rate limit", "Too Many Requests"} # {}
                 THEN 2 ELSE 1
            wait == baseDelayMs * (2 ^ (k - 1)) * m
        IN  /\ sleeps[k] = IF wait < maxDelayMs THEN wait ELSE maxDelayMs
            /\ sleeps[k] <= maxDelayMs

\* One call slept after a plain failure and then after a rate-limit
\* failure: the first sleep lasted baseDelay, the second was cut to
\* maxDelay.
C20_Witness ==
    /\ Len(sleeps) >= 2
    /\ calls[1].error.message = {}
    /\ calls[2].error.message = {"rate limit"}
    /\ sleeps[1] = baseDelayMs
    /\ sleeps[2] = maxDelayMs
    /\ maxDelayMs < 4 * baseDelayMs

\* C21: whatever the history file and the cursor file hold when they are
\* not the objects the program wrote (missing, not JSON, JSON null, an
\* object without the fields), the history loaded from the file is empty,
\* and a detection cycle started on such a cursor file runs with the
\* all-null cursor.
C21_DamagedStateStartsFresh ==
    /\ historyFile.kind \in DamagedKinds => history = << >>
    /\ (pc # "idle" /\ atStart.cursorFile.kind \in DamagedKinds) =>
          cursor = NullCursor

\* C22: the migrations a run hands to saveOutput are the results of
\* enrichMigrations, each once, in non-increasing order of market_cap_usd
\* (null counted as 0).
C22_PublishedSorted ==
    published.written =>
        /\ Len(published.migrations) = Len(enrichResults)
        /\ \A r \in 1..Len(enrichResults) :
              \E k \in 1..Len(published.migrations) :
                 published.migrations[k] = enrichResults[r]
        /\ \A j, k \in 1..Len(published.migrations) :
              j < k => CapOrZero(published.migrations[j])
                          >= CapOrZero(published.migrations[k])

\* A run published two migrations that enrichMigrations had returned in
\* increasing order of market cap.
C22_Witness ==
    /\ published.written
    /\ Len(enrichResults) = 2
    /\ enrichResults[1].market_cap_usd < enrichResults[2].market_cap_usd
    /\ published.migrations = << enrichResults[2], enrichResults[1] >>

\* C23: in continuous mode no cycle ends main, whatever it raised: every
\* runDetection call completes and main then sleeps; while main sleeps the
\* next cycle can start, and the sleep is followed by the start of the
\* next cycle and by nothing else; and at most one cycle is in progress at
\* any time.
C23_FailingCycleKeepsPolling ==
    /\ [](continuous => pc # "crashed" /\ inProgress <= 1)
    /\ [](continuous /\ pc = "sleeping" => ENABLED RunDetectionStarts)
    /\ [][(continuous /\ inProgress' < inProgress) => pc' = "sleeping"]_vars
    /\ [][(continuous /\ pc = "sleeping" /\ pc' # pc) =>
              (pc' = "detecting" /\ inProgress' = 1)]_vars

\* In continuous mode a cycle failed on its listing, and the next cycle is
\* in progress.
C23_Witness ==
    /\ continuous
    /\ lastOutcome = "listing error"
    /\ pc = "detecting"
    /\ inProgress = 1

\* C24: when getSignaturesInTimeWindow has returned, its result is every
\* entry of the ledger that has a block time, is newer than `until` and
\* has a block time not before the window start, each once, newest first,
\* wherever the entries without a block time lie.
C24_ListingComplete ==
    LET len == Len(ledger)
        desc == [k \in 1..len |-> len - k + 1]
        inWindow(s) == /\ ledger[s] # NoTime
                       /\ ledger[s] >= windowStartTime
                       /\ s > cursor.newestSignature
    IN  pc = "returned" =>
           /\ SignaturesOf(allSignatures) = SelectSeq(desc, inWindow)
           /\ \A k \in 1..Len(allSignatures) :
                 allSignatures[k].blockTime = ledger[allSignatures[k].signature]

\* C25: at most concurrencyLimit fetch+classify operations are in flight,
\* and an operation has started only if every operation of the groups
\* before its own has settled.
C25_BoundedConcurrency ==
    /\ Cardinality(InFlight) <= ConcurrencyLimit
    /\ \A k \in Started : \A j \in 1..Len(ops) :
          ((j - 1) \div ConcurrencyLimit) < ((k - 1) \div ConcurrencyLimit)
             => j \in Settled

\* The second group is in flight in full after a first group in which one
\* fetch raised.
C25_Witness ==
    /\ Cardinality(InFlight) = ConcurrencyLimit
    /\ i = ConcurrencyLimit
    /\ \E k \in 1..ConcurrencyLimit : ops[k] = "throw"

C27_MintExtractionTotal ==
    LET both == tx.preTokenBalances \o tx.postTokenBalances
        cands == {both[k].mint : k \in 1..Len(both)} \ IgnoreMints
    IN  verdict.called =>
           /\ verdict.mint = "null" <=> cands = {}
           /\ cands # {} => verdict.mint \in cands
           /\ verdict.mint \notin IgnoreMints

\* C28: detectDestination returns 'pumpswap' when a PumpSwap program is
\* among the account keys, with or without a Raydium program; 'raydium'
\* when a Raydium program and no PumpSwap program is; null otherwise.  An
\* accepted transaction with a mint is parsed into a migration carrying
\* that destination, null included.
C28_DestinationPriority ==
    LET has(p) == \E k \in 1..Len(tx.accountKeys) : tx.accountKeys[k] = p
        pumpswap == has(DEX_PROGRAMS.PUMPSWAP) \/ has(DEX_PROGRAMS.PUMPSWAP_AMM)
        raydium == has(DEX_PROGRAMS.RAYDIUM_AMM) \/ has(DEX_PROGRAMS.RAYDIUM_CLMM)
    IN  verdict.called =>
           /\ pumpswap => verdict.destination = "pumpswap"
           /\ (raydium /\ ~pumpswap) => verdict.destination = "raydium"
           /\ (~raydium /\ ~pumpswap) => verdict.destination = "null"
           /\ (verdict.accepted /\ verdict.mint # "null") =>
                 /\ Len(verdict.parsed) = 1
                 /\ verdict.parsed[1].destination = verdict.destination
                 /\ verdict.parsed[1].mint = verdict.mint

\* A migration with the PumpSwap AMM and a Raydium program among its
\* account keys, but not the PumpSwap migration program, was parsed with
\* destination 'pumpswap'.
C28_Witness ==
    /\ verdict.called
    /\ Includes(tx.accountKeys, DEX_PROGRAMS.PUMPSWAP_AMM)
    /\ ~Includes(tx.accountKeys, DEX_PROGRAMS.PUMPSWAP)
    /\ Includes(tx.accountKeys, DEX_PROGRAMS.RAYDIUM_CLMM)
    /\ Len(verdict.parsed) = 1
    /\ verdict.parsed[1].destination = "pumpswap"

\* C29: enrichMigrations visits the migrations in input order and returns
\* without raising; its results are, in input order, what each migration
\* gives from its own metadata, price and supply lookups alone; and a
\* migration whose price lookup raised is not in the results.
C29_EnrichmentIsolatesFailures ==
    LET own(k) ==
            LET e == enrichLog[k]
                priceData == WithSupply(PriceDataOf(e.price), e.supply)
            IN  IF ~e.price.threw /\ PassesFloor(priceData)
                THEN << ResultOf(toEnrich[k], e.metadata, priceData) >>
                ELSE << >>
    IN  /\ Len(enrichLog) <= Len(toEnrich)
        /\ enrichResults = Flatten([k \in 1..Len(enrichLog) |-> own(k)])
        /\ pc = "returned" => Len(enrichLog) = Len(toEnrich)
        /\ pc # "raised"

\* enrichMigrations returned the one result of its first migration, after
\* the metadata lookup of that migration had failed and the price lookup
\* of the second had raised.
C29_Witness ==
    /\ pc = "returned"
    /\ Len(toEnrich) = 2
    /\ enrichLog[1].metadata.symbol = "null"
    /\ enrichLog[2].price.threw
    /\ Len(enrichResults) = 1
    /\ enrichResults[1].signature = toEnrich[1].signature

\* C30: for an answer with attributes getPrice returns, without raising,
\* marketCapUsd = the number read from market_cap_usd when that field is
\* given (a non-empty text), else the number read from fdv_usd when that
\* is given, else null, and priceUsd = the number read from price_usd when
\* given, else null; a given field from which no number can be read gives
\* null for the value it feeds, never NaN, whatever the other fields hold.
C30_PriceFieldSelection ==
    LET given(f) == f.kind \notin {"absent", "empty"}
        read(f) == IF f.kind \in {"number", "prefixed"}
                   THEN f.value ELSE NoNumber
    IN  (pc # "answered" /\ response.kind = "attributes") =>
           /\ quote.kind = "returned"
           /\ quote.priceUsd =
                 IF given(response.price_usd) THEN read(response.price_usd)
                 ELSE NoNumber
           /\ quote.marketCapUsd =
                 IF given(response.market_cap_usd)
                 THEN read(response.market_cap_usd)
                 ELSE IF given(response.fdv_usd) THEN read(response.fdv_usd)
                      ELSE NoNumber
           /\ quote.priceUsd # NaN
           /\ quote.marketCapUsd # NaN

\* getPrice returned a known price and a null market cap for an answer
\* whose market_cap_usd is no number and whose fdv_usd is one.
C30_Witness ==
    /\ pc = "returned"
    /\ response.kind = "attributes"
    /\ response.market_cap_usd.kind = "garbage"
    /\ response.fdv_usd = [kind |-> "number", value |-> 30000]
    /\ response.price_usd.kind = "number"
    /\ quote.marketCapUsd = NoNumber
    /\ quote.priceUsd = response.price_usd.value

\* C31: a 404 answer is never retried and is no error: the request it
\* answers is the last one and getPrice returns null for both fields, after
\* exactly one request when the first answer is the 404; a lookup makes at
\* most 3 requests, every one but the last having failed; and when all 3
\* fail, enrichMigrations goes on with both fields null.
C31_PriceLookupOutcomes ==
    /\ Len(calls) <= PriceMaxRetries + 1
    /\ Len(sleeps) <= PriceMaxRetries
    /\ \A k \in 1..Len(calls) :
          /\ calls[k].value = 404 =>
                /\ k = Len(calls)
                /\ pc # "attempt" /\ pc # "sleeping"
                /\ response = [kind |-> "404"]
                /\ quote.kind \in {"none", "returned"}
                /\ quote.kind = "returned" =>
                      /\ quote.priceUsd = NoNumber
                      /\ quote.marketCapUsd = NoNumber
          /\ k < Len(calls) => ~calls[k].ok
    /\ (Len(calls) >= 1 /\ calls[1].value = 404) =>
          Len(calls) = 1 /\ sleeps = << >> /\ lastError = NoError
    /\ (pc = "supply" /\ \A k \in 1..Len(calls) : ~calls[k].ok) =>
          /\ Len(calls) = PriceMaxRetries + 1
          /\ lookedUp = [priceUsd |-> NoNumber, marketCapUsd |-> NoNumber]
    /\ (pc = "raised") => ENABLED LookupEnds

\* A lookup whose three requests all failed has ended with unknown price
\* data.
C31_Witness ==
    /\ pc = "supply"
    /\ Len(calls) = 3
    /\ \A k \in 1..3 : ~calls[k].ok
    /\ calls[3].value = 500
    /\ lookedUp = [priceUsd |-> NoNumber, marketCapUsd |-> NoNumber]

\* C32: the first requests of two different getPrice calls on one provider
\* are at least minRequestInterval apart, whether the calls follow one
\* another or overlap.
C32_MinimumInterval ==
    \A j, k \in 1..Len(priceCalls) :
       (j < k /\ priceCalls[j].at = "requested"
              /\ priceCalls[k].at = "requested") =>
          \/ priceCalls[k].requestedAt - priceCalls[j].requestedAt
                >= minRequestInterval
          \/ priceCalls[j].requestedAt - priceCalls[k].requestedAt
                >= minRequestInterval

\* C33: every detectMigrations call that has started eventually returns
\* or raises, and each further page of the listing is asked with a `before`
\* that is a signature strictly older than the previous `before`.
C33_CycleEnds ==
    /\ (pc \in {"listing", "batch", "saveCursor"})
          ~> (pc \in {"returned", "raised"})
    /\ [][ListNextPage =>
            /\ before' # NoSig
            /\ before' <= Len(ledger)
            /\ (before # NoSig => before' < before)]_vars

\* A cycle that listed more than one page and processed more than one
\* group has returned.
C33_Witness ==
    /\ pc = "returned"
    /\ before # NoSig
    /\ Len(newSignatures) > ConcurrencyLimit
    /\ i >= Len(newSignatures)
    /\ ret.migrations # << >>

\* C34: when a cycle has moved the persisted cursor from a signature A to
\* a newer signature B, every signature of the ledger that has a block time
\* and is newer than A and not newer than B is in the history set.
C34_CursorNeverSkips ==
    LET A == loadCursor(atStart.cursorFile).newestSignature
        B == cursorFile.data.newestSignature
    IN  (pc = "returned" /\ cursorFile # atStart.cursorFile
           /\ A # NoSig /\ B > A) =>
           \A sig \in (A + 1)..B :
              ledger[sig] # NoTime => isProcessed(history, sig)

\* C35: the migrations collected by the group loop are those of the groups
\* that have ended, in the order of the listing (newest first), whatever
\* the order in which the fetches of a group settled.
C35_ResultOrderIsListingOrder ==
    LET done == Min(i, Len(newSignatures))
    IN  /\ migrations =
              Flatten([k \in 1..done |->
                          FetchAndParse(newSignatures[k], ops[k])])
        /\ \A a, b \in 1..Len(migrations) :
              a < b => migrations[a].signature > migrations[b].signature

\* A group ended whose two migrations settled in the reverse of the listing
\* order.
C35_Witness ==
    /\ i >= 2
    /\ Len(settledOrder) >= 2
    /\ settledOrder[1] = 2
    /\ settledOrder[2] = 1
    /\ Len(migrations) >= 2
    /\ migrations[1].signature = newSignatures[1].signature
    /\ migrations[2].signature = newSignatures[2].signature

\* C36: while a process runs its history set only grows at its end (no
\* entry is dropped or moved, also beyond the cap of the file), every
\* persisted signature is in the set, adding a signature of the set again
\* leaves the set as it is, and after a completed cycle that found new
\* signatures the history file holds the last min(HistoryCap, size)
\* entries of the set in insertion order.
C36_HistorySetNeverTruncated ==
    /\ [][Restart \/
            /\ Len(history') >= Len(history)
            /\ SubSeq(history', 1, Len(history)) = history]_vars
    /\ [](\A k \in 1..Len(historyFile.processedSignatures) :
             isProcessed(history, historyFile.processedSignatures[k]))
    /\ [](\A sig \in 1..MaxLedger :
             isProcessed(history, sig) =>
                addToHistory(history, << sig >>) = history)
    /\ []((pc = "returned" /\ newSignatures # << >>) =>
             /\ historyFile.kind = "json"
             /\ historyFile.processedSignatures =
                   SubSeq(history, Len(history) - Min(HistoryCap, Len(history)) + 1,
                          Len(history))
             /\ \A k \in 1..Len(newSignatures) :
                   isProcessed(history, newSignatures[k].signature))

\* A cycle has completed with more signatures in the set than the file
\* keeps: the oldest is still reported as processed and is not in the file.
C36_Witness ==
    /\ pc = "returned"
    /\ newSignatures # << >>
    /\ Len(history) > HistoryCap
    /\ isProcessed(history, history[1])
    /\ ~isProcessed(historyFile.processedSignatures, history[1])

====
